---------------------------- MODULE Spec2Model ----------------------------
(***************************************************************************)
(* Model of the openfl aggregator (round engine), its cutoff-time          *)
(* straggler policy and its dynamic random grouped assigner.               *)
(*                                                                         *)
(* Python lists whose order is never observed and that the code keeps      *)
(* duplicate free (available_collaborators, stragglers,                    *)
(* collaborators_to_assign, collaborators_for_task[t][r]) are sets here.   *)
(* Lists that can hold a name twice (authorized_cols, the two admin        *)
(* queues) are sequences; collaborators_done and quit_job_sent_to, read    *)
(* only through len() and `in`, are counted per name.                      *)
(*                                                                         *)
(* Every handler is a function from the state record before the call to    *)
(* the state record after it.  A Python exception stops the handler where  *)
(* it is raised: the record keeps the writes made so far and carries the   *)
(* exception in its field exc.                                             *)
(***************************************************************************)
EXTENDS Integers, Sequences, FiniteSets, TLC

\* ------------------------------------------------------------------ bounds
RoundsToTrain == 2
MaxTime == 30
MaxQuitSends == 2
\* the count of passes of the end-of-round guard per round saturates here
MaxRuns == 2

\* --------------------------------------------------------------- constants
MINIMUM_CUTOFF_SECONDS == 20
\* Aggregator.__init__: db_store_rounds=1
db_store_rounds == 1
SLEEP_TIME == 10

\* time.time() advances in steps of TickStep seconds
TickSteps == {10}
\* np.inf: larger than any time the clock reaches
NP_INF == MaxTime + 1000
\* Python None for a time stamp
None == 0 - 1
\* best_model_score = None (line 109); a score is <<numerator, denominator>>
NoScore == <<>>
\* a time stamp of which only `is None` is ever read
STAMP == 0 - 0

\* ------------------------------------------------------------- input sets
CNs == {"A", "B", "D"}
InitialAuthorized == <<"A", "B">>
Labels == {"L1", "L2"}
AdminPairs == {<<"L1", "B">>}
AdminPairs2 == {<<"L1", "D">>, <<"L1", "B">>, <<"L2", "D">>}
TaskNames == {"train", "validate"}
\* (data_size, tensor keys of the submission)
Payloads == {[data_size |-> 10, tensors |-> "t1"], [data_size |-> 20, tensors |-> "t2"]}
\* the payload a collaborator sends in the runs explored
SentPayload == [data_size |-> 10, tensors |-> "t1"]
CutoffInputs == {5, 25}
\* the tags of the get_aggregated_tensor requests explored
RequestTags ==
  { <<"model">>, <<"model", "compressed">>, <<"aggregated">>,
    <<"aggregated", "lossy_compressed">>, <<"aggregated", "delta">>,
    <<"aggregated", "delta", "compressed">> }
Rounds == 0 .. (RoundsToTrain - 1)
\* range(self.rounds)
RoundsOf(S) == 0 .. (S.rounds_to_train - 1)

\* task group configurations; percentage = num / den with den a power of two,
\* so that the float product percentage * n is exact
GroupConfigs ==
  { << [name |-> "all", num |-> 1, den |-> 1, tasks |-> <<"train", "validate">>] >>,
    << [name |-> "g_train", num |-> 1, den |-> 2, tasks |-> <<"train">>],
       [name |-> "g_val", num |-> 1, den |-> 2, tasks |-> <<"validate">>] >> }

\* ------------------------------------------------------------------ helpers
SeqToSet(s) == {s[i] : i \in DOMAIN s}

InSeq(x, s) == \E i \in DOMAIN s : s[i] = x

RECURSIVE Perms(_)
Perms(set) ==
  IF set = {} THEN {<<>>}
  ELSE UNION { {<<x>> \o p : p \in Perms(set \ {x})} : x \in set }

\* the sub-sequence of s whose elements are in set
RECURSIVE Restrict(_, _)
Restrict(s, set) ==
  IF s = <<>> THEN <<>>
  ELSE IF Head(s) \in set THEN <<Head(s)>> \o Restrict(Tail(s), set)
       ELSE Restrict(Tail(s), set)

\* list.remove(x): drops the first element equal to x
RECURSIVE RemoveFirst(_, _)
RemoveFirst(s, x) ==
  IF s = <<>> THEN <<>>
  ELSE IF Head(s) = x THEN Tail(s) ELSE <<Head(s)>> \o RemoveFirst(Tail(s), x)

Raise(S, e) == [S EXCEPT !.exc = e]

Ok(S) == S.exc = "none"

\* ================================================================ assigner
\* DynamicRandomGroupedAssigner.  State: task_groups, assigner_authorized_cols,
\* collaborators_to_assign, collaborator_tasks (a dict: only the names in its
\* DOMAIN have an entry), collaborators_for_task.

AllTasksInGroups(groups) == UNION {SeqToSet(groups[i].tasks) : i \in DOMAIN groups}

\* for col in authorized_cols: if col not in collaborators_to_assign:
\*     for i in range(from_round, rounds): collaborator_tasks[col][i] = []
RECURSIVE ClearDropped(_, _, _)
ClearDropped(S, cols, from_round) ==
  IF cols = <<>> \/ ~Ok(S) THEN S
  ELSE LET col == Head(cols) IN
       IF col \in S.collaborators_to_assign \/ from_round >= S.rounds_to_train
       THEN ClearDropped(S, Tail(cols), from_round)
       ELSE IF col \notin DOMAIN S.collaborator_tasks
            THEN Raise(S, "KeyError")
            ELSE ClearDropped(
                   [S EXCEPT !.collaborator_tasks[col] =
                      [i \in RoundsOf(S) |-> IF i >= from_round THEN <<>> ELSE @[i]]],
                   Tail(cols), from_round)

ResetCollaboratorsForTask_all_rounds(S, from_round) ==
  [S EXCEPT !.collaborators_for_task = [t \in DOMAIN @ |-> [i \in RoundsOf(S) |-> {}]]]

\* for task in all_tasks_in_groups: for round_num in range(from_round, rounds):
\*     collaborators_for_task[task][round_num] = []
ResetCollaboratorsForTask(S, from_round) ==
  [S EXCEPT !.collaborators_for_task =
     [t \in DOMAIN @ |-> [i \in RoundsOf(S) |-> IF i >= from_round THEN {} ELSE @[t][i]]]]

\* for col in rand_col_group_list: collaborator_tasks[col][round_num] = group['tasks']
RECURSIVE SetGroupTasks(_, _, _, _)
SetGroupTasks(S, cols, round_num, tasks) ==
  IF cols = <<>> \/ ~Ok(S) THEN S
  ELSE IF Head(cols) \notin DOMAIN S.collaborator_tasks
       THEN Raise(S, "KeyError")
       ELSE SetGroupTasks(
              [S EXCEPT !.collaborator_tasks[Head(cols)][round_num] = tasks],
              Tail(cols), round_num, tasks)

\* int(group['percentage'] * col_list_size)
NumColInGroup(group, col_list_size) == (group.num * col_list_size) \div group.den

\* randomized_col_idx[col_idx:col_idx + num_col_in_group]: a slice stops at the end
Slice(perm, col_idx, num) ==
  IF col_idx >= Len(perm) THEN <<>>
  ELSE SubSeq(perm, col_idx + 1, IF col_idx + num > Len(perm) THEN Len(perm) ELSE col_idx + num)

\* the body of `for group in self.task_groups` and the assert that follows it
RECURSIVE GroupLoop(_, _, _, _, _)
GroupLoop(S, round_num, perm, gi, col_idx) ==
  IF ~Ok(S) THEN S
  ELSE IF gi > Len(S.task_groups)
       THEN IF col_idx = Len(perm) THEN S ELSE Raise(S, "AssertionError")
       ELSE LET group == S.task_groups[gi]
                num == NumColInGroup(group, Len(perm))
                rand_col_group_list == Slice(perm, col_idx, num)
                S1 == SetGroupTasks(S, rand_col_group_list, round_num, group.tasks)
                S2 == IF Ok(S1)
                      THEN [S1 EXCEPT !.collaborators_for_task =
                              [t \in DOMAIN @ |->
                                 IF t \in SeqToSet(group.tasks)
                                 THEN [@[t] EXCEPT ![round_num] = @ \cup SeqToSet(rand_col_group_list)]
                                 ELSE @[t]]]
                      ELSE S1
            IN GroupLoop(S2, round_num, perm, gi + 1, col_idx + num)

\* for round_num in range(from_round, self.rounds): perms[round_num] is the order
\* np.random.choice draws for that round
RECURSIVE RoundLoop(_, _, _)
RoundLoop(S, round_num, perms) ==
  IF ~Ok(S) \/ round_num >= S.rounds_to_train THEN S
  ELSE RoundLoop(
         GroupLoop([S EXCEPT !.rnd = TRUE], round_num,
                   Restrict(perms[round_num], S.collaborators_to_assign), 1, 0),
         round_num + 1, perms)

assign_tasks(S, from_round, perms) ==
  LET S1 == ClearDropped(S, S.assigner_authorized_cols, from_round)
      S2 == IF Ok(S1) THEN ResetCollaboratorsForTask(S1, from_round) ELSE S1
  IN RoundLoop(S2, from_round, perms)

assigner_end_of_round_only_drops(S, available_collaborators, stragglers, next_round, perms) ==
  LET collaborators_to_assign ==
        (available_collaborators \ stragglers) \cap S.collaborators_to_assign IN
  IF collaborators_to_assign = S.collaborators_to_assign THEN S
  ELSE assign_tasks([S EXCEPT !.collaborators_to_assign = collaborators_to_assign],
                    next_round, perms)

\* DynamicRandomGroupedAssigner.end_of_round
assigner_end_of_round(S, available_collaborators, stragglers, next_round, perms) ==
  LET collaborators_to_assign == available_collaborators \ stragglers IN
  IF collaborators_to_assign = S.collaborators_to_assign THEN S
  ELSE assign_tasks([S EXCEPT !.collaborators_to_assign = collaborators_to_assign],
                    next_round, perms)

get_tasks_for_collaborator(S, collaborator_name, round_number) ==
  S.collaborator_tasks[collaborator_name][round_number]

get_collaborators_for_task(S, task_name, round_number) ==
  S.collaborators_for_task[task_name][round_number]

get_assigned_collaborators(S) == S.collaborators_to_assign


\* Assigner.get_all_tasks_for_round (base class): the tasks of all groups
get_all_tasks_for_round(S, round_number) == AllTasksInGroups(S.task_groups)

\* Assigner.add_collaborator (base class): the assigner learns the new name
assigner_add_collaborator(S, col_label, col_cn) ==
  [S EXCEPT !.assigner_authorized_cols =
              IF InSeq(col_cn, @) THEN @ ELSE Append(@, col_cn),
            !.collaborator_tasks =
              IF col_cn \in DOMAIN @ THEN @
              ELSE [c \in DOMAIN @ \cup {col_cn} |->
                      IF c = col_cn THEN [i \in RoundsOf(S) |-> <<>>] ELSE @[c]]]

\* Assigner.remove_collaborator (base class): the assigner forgets the name
assigner_remove_collaborator(S, col_label, col_cn) ==
  [S EXCEPT !.assigner_authorized_cols = RemoveFirst(@, col_cn)]

\* ========================================================= straggler policy
\* CutoffTimeBasedStragglerHandling.  timer is None when no timer is pending,
\* else the clock value after which the pending threading.Timer runs its
\* callback (start time + interval).

\* _set_cutoff_time
SetCutoffTime(S, straggler_cutoff_time) ==
  [S EXCEPT !.straggler_cutoff_time =
     IF straggler_cutoff_time > MINIMUM_CUTOFF_SECONDS
     THEN straggler_cutoff_time ELSE MINIMUM_CUTOFF_SECONDS]

reset_policy_for_round(S) == [S EXCEPT !.timer = None]

\* __straggler_time_expired
straggler_time_expired(S) ==
  /\ S.round_start_time # None
  /\ (S.now - S.round_start_time) > S.straggler_cutoff_time

\* __minimum_collaborators_reported
minimum_collaborators_reported(S, num_collaborators_done) ==
  num_collaborators_done >= S.minimum_reporting

straggler_cutoff_check(S, num_collaborators_done, num_all_collaborators) ==
  IF ~straggler_time_expired(S) THEN FALSE
  ELSE minimum_collaborators_reported(S, num_collaborators_done)

\* start_policy.  Only differences time.time() - round_start_time are ever
\* read, so the clock is counted from the instant start_policy reads it.
start_policy(S) ==
  IF S.straggler_cutoff_time = NP_INF THEN S
  ELSE [reset_policy_for_round(S) EXCEPT
          !.now = 0,
          !.round_start_time = 0,
          !.timer = S.straggler_cutoff_time,
          !.callback_set = TRUE]


\* =============================================================== aggregator
TaskResultKey(task_name, owner, round_number) == <<task_name, owner, round_number>>

\* len(self.collaborators_done)
RECURSIVE SumCounts(_, _)
SumCounts(f, set) ==
  IF set = {} THEN 0
  ELSE LET x == CHOOSE y \in set : TRUE IN f[x] + SumCounts(f, set \ {x})

DoneLen(S) == SumCounts(S.collaborators_done, CNs)

InDone(S, c) == S.collaborators_done[c] > 0

ZeroCount == [c \in CNs |-> 0]

time_to_quit(S) == S.round_number >= S.rounds_to_train

collaborator_task_completed_never(S, collaborator, task_name, round_num) == FALSE

\* Aggregator._collaborator_task_completed (lines 629-649)
collaborator_task_completed(S, collaborator, task_name, round_num) ==
  TaskResultKey(task_name, collaborator, round_num) \in DOMAIN S.collaborator_tasks_results

\* lines 973-981: the collaborators of the task that are in collaborators_done
MetricContributors(S, task_name) ==
  {c \in get_collaborators_for_task(S, task_name, S.round_number) : InDone(S, c)}

\* lines 984-991: collaborator -> weight / weight_total, the quotient kept as
\* the pair of its numerator and denominator
collaborator_weight_dict(S, task_name) ==
  LET collaborator_weights_unnormalized ==
        [c \in MetricContributors(S, task_name) |->
           S.collaborator_task_weight[TaskResultKey(task_name, c, S.round_number)]]
      weight_total == SumCounts(collaborator_weights_unnormalized,
                                DOMAIN collaborator_weights_unnormalized)
  IN [c \in DOMAIN collaborator_weights_unnormalized |->
        [num |-> collaborator_weights_unnormalized[c], den |-> weight_total]]

\* What a submission's named tensors hold.  Every tensor of one submission
\* carries the same named_tensor.round_number, which line 788 takes as sent:
\* the round of the submission, or the round before for tensors sent late.
named_tensor_round(tensors, round_number) ==
  IF tensors = "t_late" THEN round_number - 1 ELSE round_number

\* the value of the validation metric in the submission
named_tensor_value(tensors) == IF tensors = "t1" THEN 2 ELSE 4

\* the tags of the tensor a task reports, without the collaborator's name: the
\* validation of the aggregated model reports one metric (report = True), the
\* training one trained layer
TaskTensorTags(task_name) ==
  IF task_name = "validate" THEN <<"metric", "validate_agg">> ELSE <<"trained">>

\* TensorDB.get_aggregated_tensor with the weights of
\* collaborator_weight_dict: the contributions are looked up under the key of
\* the first contributor with each contributor's name added, so a contributor
\* whose tensors carry another round number is missing and nothing is
\* aggregated; else the weighted average, a quotient in lowest terms
get_aggregated_tensor_from_db(S, task_name, round_number, weights) ==
  LET Quotient(num, den) ==
        LET g == CHOOSE d \in 1 .. den :
                   /\ num % d = 0 /\ den % d = 0
                   /\ \A e \in (d + 1) .. den : ~(num % e = 0 /\ den % e = 0)
        IN <<num \div g, den \div g>>
  IN
  IF \E c \in DOMAIN weights :
       \/ <<task_name, c, S.round_number>> \notin DOMAIN S.collaborator_tasks_results
       \/ named_tensor_round(S.collaborator_tasks_results[<<task_name, c, S.round_number>>],
                             S.round_number) # round_number
  THEN NoScore
  ELSE Quotient(
         SumCounts([c \in DOMAIN weights |->
                      weights[c].num * named_tensor_value(
                        S.collaborator_tasks_results[<<task_name, c, S.round_number>>])],
                   DOMAIN weights),
         weights[CHOOSE c \in DOMAIN weights : TRUE].den)

\* Aggregator._save_model(round_number, self.best_state_path): nothing is
\* written when a model tensor of that round is not in the tensor database
\* (lines 269-271)
save_best_model(S, round_number) ==
  IF <<round_number, <<"model">>>> \notin S.tensor_db THEN S
  ELSE [S EXCEPT !.best_saves = @ + 1]

\* Aggregator._prepare_trained: the aggregate is cached as round + 1
\* 'aggregated', its delta against the round's model (when there is one) and
\* the new model as round + 1 'model'
prepare_trained(S, round_number) ==
  [S EXCEPT !.tensor_db =
     @ \cup {<<round_number + 1, <<"aggregated">>>>, <<round_number + 1, <<"model">>>>}
       \cup (IF <<round_number, <<"model">>>> \in @
              THEN {<<round_number + 1, <<"aggregated", "delta">>>>} ELSE {})]

\* lines 1002-1040: the body of the loop over the first contributor's tensor
\* keys, for the one tensor a task reports.  best_model_score < agg_results
\* compares two quotients with positive denominators.
aggregate_tensor_key(S, task_name, round_number) ==
  LET report_and_prepare(agg_results) ==
        IF agg_results = NoScore THEN Raise(S, "MissingContributor")
        ELSE IF InSeq("validate_agg", TaskTensorTags(task_name))
             THEN IF \/ S.best_model_score = NoScore
                     \/ S.best_model_score[1] * agg_results[2]
                          < agg_results[1] * S.best_model_score[2]
                  THEN save_best_model([S EXCEPT !.best_model_score = agg_results],
                                       round_number)
                  ELSE S
             ELSE prepare_trained(S, round_number)
  IN report_and_prepare(
       get_aggregated_tensor_from_db(S, task_name, round_number,
                                     collaborator_weight_dict(S, task_name)))

\* _compute_validation_related_task_metrics: the contributors are the done
\* collaborators of the task; their weights are looked up and normalised, and
\* the first contributor's tensor keys are aggregated; a reported
\* validate_agg metric is compared with best_model_score (lines 1032-1038), a
\* trained tensor becomes the next round's model (line 1040)
compute_validation_related_task_metrics(S, task_name) ==
  LET collaborators_for_task == MetricContributors(S, task_name)
  IN IF S.round_number \notin DOMAIN S.collaborators_for_task[task_name]
     THEN Raise(S, "KeyError")
     ELSE IF \E c \in collaborators_for_task :
          TaskResultKey(task_name, c, S.round_number) \notin DOMAIN S.collaborator_task_weight
     THEN Raise(S, "KeyError")
     ELSE IF \E c \in collaborators_for_task :
          collaborator_weight_dict(S, task_name)[c].den = 0
     THEN Raise(S, "ZeroDivisionError")
     ELSE IF collaborators_for_task = {}
          THEN Raise(S, "IndexError")
     ELSE
     IF \E c \in collaborators_for_task :
          TaskResultKey(task_name, c, S.round_number) \notin DOMAIN S.collaborator_tasks_results
     THEN Raise(S, "KeyError")
     ELSE aggregate_tensor_key(
            S, task_name,
            named_tensor_round(
              S.collaborator_tasks_results[
                TaskResultKey(task_name, CHOOSE c \in collaborators_for_task : TRUE,
                              S.round_number)],
              S.round_number))

\* for task_name in all_tasks: self._compute_validation_related_task_metrics(task_name)
RECURSIVE MetricsLoop(_, _)
MetricsLoop(S, tasks) ==
  IF tasks = <<>> \/ ~Ok(S) THEN S
  ELSE MetricsLoop(compute_validation_related_task_metrics(S, Head(tasks)), Tail(tasks))

\* lines 1176-1184: the available list follows the pending adds and removes
AvailableForAssigner(S) ==
  (S.available_collaborators \cup {S.collaborators_to_add[i][2] : i \in DOMAIN S.collaborators_to_add})
    \ {S.collaborators_to_remove[i][2] : i \in DOMAIN S.collaborators_to_remove}

\* for col_label, col_cn in self.collaborators_to_add: append, notify the assigner
RECURSIVE ApplyAdds(_, _)
ApplyAdds(S, queue) ==
  IF queue = <<>> THEN S
  ELSE ApplyAdds(
         assigner_add_collaborator(
           [S EXCEPT !.authorized_cols = Append(@, Head(queue)[2])],
           Head(queue)[1], Head(queue)[2]),
         Tail(queue))

\* for col_label, col_cn in self.collaborators_to_remove: list.remove, notify
RECURSIVE ApplyRemoves(_, _)
ApplyRemoves(S, queue) ==
  IF queue = <<>> \/ ~Ok(S) THEN S
  ELSE IF ~InSeq(Head(queue)[2], S.authorized_cols)
       THEN Raise(S, "ValueError")
       ELSE ApplyRemoves(
              assigner_remove_collaborator(
                [S EXCEPT !.authorized_cols = RemoveFirst(@, Head(queue)[2])],
                Head(queue)[1], Head(queue)[2]),
              Tail(queue))

\* lines 1153-1154: the guard of _end_of_round_check
EndOfRoundGuard(S) ==
  IF S.round_number >= S.rounds_to_train THEN "IndexError"
  ELSE IF S.end_of_round_check_done[S.round_number] THEN "return" ELSE "run"

\* a thread is past the guard (line 1155): counted per round
EndOfRoundEnter(S) ==
  [S EXCEPT !.eor_runs[S.round_number] = IF @ < MaxRuns THEN @ + 1 ELSE @]

\* lines 1157-1160, with the tasks taken in the order ch.order
EndOfRoundMetrics(S, ch) ==
  LET S1 == MetricsLoop(S, Restrict(ch.order, get_all_tasks_for_round(S, S.round_number)))
  IN IF Ok(S1) THEN S1 ELSE [S1 EXCEPT !.rnd = TRUE]

NextRound_plus2(r) == r + 2

\* line 1172: self.round_number += 1
NextRound(r) == r + 1

\* Aggregator.set_dynamic_task_arg: KeyError for an unknown task or argument
\* (also when dynamictaskargs is None), ValueError outside [min, max]
OutOfRange == "ValueError"

set_dynamic_task_arg(S, task_name, arg_name, value) ==
  IF <<task_name, arg_name>> \notin DOMAIN S.dynamictaskargs
  THEN Raise(S, "KeyError")
  ELSE IF \/ value < S.dynamictaskargs[<<task_name, arg_name>>].min
          \/ value > S.dynamictaskargs[<<task_name, arg_name>>].max
  THEN Raise(S, OutOfRange)
  ELSE [S EXCEPT !.dynamictaskargs[<<task_name, arg_name>>].value = value]

\* Aggregator._write_dynamic_task_args: the pending value of every entry goes
\* to tensor_db.cache_dynamic_arg under the current round_number
write_dynamic_task_args(S) ==
  LET written == {<<p[1], p[2], S.round_number>> : p \in DOMAIN S.dynamictaskargs} IN
  [S EXCEPT !.dynamic_args =
     [k \in (DOMAIN @) \cup written |->
        IF k \in written THEN S.dynamictaskargs[<<k[1], k[2]>>].value ELSE @[k]]]

\* TensorDB.clean_up(self.db_store_rounds), line 1221: every entry whose
\* round_number is below the current round minus db_store_rounds is deleted
clean_up(S) ==
  [S EXCEPT !.tensor_db = {k \in @ : k[1] >= S.round_number - db_store_rounds}]

\* lines 1163-1250
EndOfRoundAdvance(S, ch) ==
  IF S.round_number >= S.rounds_to_train
  THEN Raise([S EXCEPT !.first_col_start = None], "IndexError")
  ELSE
  LET S1 == [S EXCEPT !.first_col_start = None,
                      !.end_of_round_check_done[S.round_number] = TRUE,
                      !.round_number = NextRound(@)]
      S2 == [S1 EXCEPT !.available_collaborators = AvailableForAssigner(S1)]
      S3 == assigner_end_of_round(S2, S2.available_collaborators, S2.stragglers,
                                  S2.round_number, ch.perms)
      S4 == [S3 EXCEPT !.policy_started = FALSE,
                       !.stragglers = {},
                       !.available_collaborators = {},
                       !.collaborators_done = ZeroCount]
      S5 == write_dynamic_task_args(reset_policy_for_round(clean_up(S4)))
      S6 == [ApplyAdds(S5, S5.collaborators_to_add) EXCEPT !.collaborators_to_add = <<>>]
      S7 == ApplyRemoves(S6, S6.collaborators_to_remove)
  IN IF ~Ok(S3) THEN S3
     ELSE IF ~Ok(S7) THEN S7
     ELSE [S7 EXCEPT !.collaborators_to_remove = <<>>]

\* Aggregator._end_of_round_check.  With S.defer the thread is left right
\* after the guard (S.entered), the rest of the function still to run.
end_of_round_check(S, ch) ==
  LET g == EndOfRoundGuard(S) IN
  IF g = "IndexError" THEN Raise(S, "IndexError")
  ELSE IF g = "return" THEN S
  ELSE IF S.defer THEN [EndOfRoundEnter(S) EXCEPT !.entered = TRUE]
  ELSE LET S1 == EndOfRoundMetrics(EndOfRoundEnter(S), ch) IN
       IF Ok(S1) THEN EndOfRoundAdvance(S1, ch) ELSE S1

\* lines 748-751
DetermineStragglers(S) ==
  [S EXCEPT !.stragglers = {c \in get_assigned_collaborators(S) : ~InDone(S, c)}]

end_round_due_to_stragglers(S, ch) == end_of_round_check(DetermineStragglers(S), ch)

straggler_cutoff_time_elapsed(S, ch) ==
  IF straggler_cutoff_check(S, DoneLen(S), Cardinality(get_assigned_collaborators(S)))
  THEN end_round_due_to_stragglers(S, ch)
  ELSE S


\* the tasks of the list that have no result yet (lines 420-435)
RECURSIVE NotCompleted(_, _, _)
NotCompleted(S, collaborator_name, tasks) ==
  IF tasks = <<>> THEN <<>>
  ELSE IF collaborator_task_completed(S, collaborator_name, Head(tasks), S.round_number)
       THEN NotCompleted(S, collaborator_name, Tail(tasks))
       ELSE <<Head(tasks)>> \o NotCompleted(S, collaborator_name, Tail(tasks))

Reply(tasks, round_number, sleep_time, quit) ==
  [tasks |-> tasks, round_number |-> round_number, sleep_time |-> sleep_time,
   time_to_quit |-> quit]

\* Aggregator.get_tasks; the reply is left in S.ret (tasks = <<>> stands for None)
get_tasks(S, collaborator_name) ==
  LET S1 == [S EXCEPT !.available_collaborators = @ \cup {collaborator_name}] IN
  IF time_to_quit(S1)
  THEN [S1 EXCEPT !.quit_job_sent_to[collaborator_name] = @ + 1,
                  !.ret = Reply(<<>>, S1.round_number, 0, TRUE)]
  ELSE IF collaborator_name \notin DOMAIN S1.collaborator_tasks
  THEN Raise(S1, "KeyError")
  ELSE
  LET assigned == get_tasks_for_collaborator(S1, collaborator_name, S1.round_number)
      tasks == IF collaborator_name \in S1.stragglers THEN <<>>
               ELSE NotCompleted(S1, collaborator_name, assigned)
  IN IF Len(assigned) = 0 \/ Len(tasks) = 0
     THEN [S1 EXCEPT !.ret = Reply(<<>>, S1.round_number, SLEEP_TIME, FALSE)]
     ELSE LET S2 == IF ~S1.policy_started
                    THEN start_policy([S1 EXCEPT !.policy_started = TRUE])
                    ELSE S1
              S3 == IF S2.first_col_start = None
                    THEN [S2 EXCEPT !.first_col_start = STAMP] ELSE S2
          IN [S3 EXCEPT !.ret = Reply(tasks, S3.round_number, 0, FALSE)]

\* _is_collaborator_done
is_collaborator_done(S, collaborator_name) ==
  IF collaborator_name \notin DOMAIN S.collaborator_tasks THEN Raise(S, "KeyError")
  ELSE LET all_tasks == get_tasks_for_collaborator(S, collaborator_name, S.round_number)
           all_tasks_completed ==
             \A i \in DOMAIN all_tasks :
               collaborator_task_completed(S, collaborator_name, all_tasks[i], S.round_number)
       IN IF all_tasks_completed
          THEN [S EXCEPT !.collaborators_done[collaborator_name] = @ + 1]
          ELSE S

\* lines 736-744: the completion check that follows an accepted result
CompletionCheck(S, ch) ==
  IF DoneLen(S) = Cardinality(get_assigned_collaborators(S))
  THEN end_of_round_check(S, ch)
  ELSE IF straggler_cutoff_check(S, DoneLen(S), Cardinality(get_assigned_collaborators(S)))
       THEN end_round_due_to_stragglers(S, ch)
       ELSE S

\* the error of lines 689-692
DuplicateResult == "ValueError: Aggregator already has task results"

AcceptGuard_without_straggler_test(S, collaborator_name, round_number, task_name) ==
  IF time_to_quit(S)
  THEN [S EXCEPT !.ret = "warn_straggler"]
  ELSE IF S.round_number # round_number
  THEN [S EXCEPT !.ret = "warn_wrong_round"]
  ELSE IF collaborator_task_completed(S, collaborator_name, task_name, round_number)
  THEN Raise(S, DuplicateResult)
  ELSE [S EXCEPT !.ret = "pass"]

\* lines 667-692: the checks that turn a submission away
AcceptGuard(S, collaborator_name, round_number, task_name) ==
  IF time_to_quit(S) \/ collaborator_name \in S.stragglers
  THEN [S EXCEPT !.ret = "warn_straggler"]
  ELSE IF S.round_number # round_number
  THEN [S EXCEPT !.ret = "warn_wrong_round"]
  ELSE IF collaborator_task_completed(S, collaborator_name, task_name, round_number)
  THEN Raise(S, DuplicateResult)
  ELSE [S EXCEPT !.ret = "pass"]

\* lines 698-734: the weight, the tensors and the result list are stored and
\* the sender's completion is looked at.  payload.tensors = "bad_delta" is a
\* submission holding a delta tensor whose base model is not in the tensor
\* database (_process_named_tensor raises).
AcceptStore(S, collaborator_name, round_number, task_name, payload) ==
  LET task_key == TaskResultKey(task_name, collaborator_name, round_number)
      S1 == [S EXCEPT !.collaborator_task_weight =
                        [k \in DOMAIN @ \cup {task_key} |->
                           IF k = task_key THEN payload.data_size ELSE @[k]]]
  IN IF payload.tensors = "bad_delta" THEN Raise(S1, "BaseModelMissing")
     ELSE
     LET S2 == [S1 EXCEPT !.collaborator_tasks_results =
                            [k \in DOMAIN @ \cup {task_key} |->
                               IF k = task_key THEN payload.tensors ELSE @[k]],
                          !.accepted[task_key] = IF @ < MaxRuns THEN @ + 1 ELSE @]
     IN IF S2.first_col_start = None THEN Raise(S2, "TypeError")
        ELSE is_collaborator_done([S2 EXCEPT !.ret = "accepted"], collaborator_name)

\* lines 667-734: everything before the completion check
AcceptResult(S, collaborator_name, round_number, task_name, payload) ==
  LET S1 == AcceptGuard(S, collaborator_name, round_number, task_name) IN
  IF Ok(S1) /\ S1.ret = "pass"
  THEN AcceptStore(S1, collaborator_name, round_number, task_name, payload)
  ELSE S1

send_local_task_results(S, collaborator_name, round_number, task_name, payload, ch) ==
  LET S1 == AcceptResult(S, collaborator_name, round_number, task_name, payload) IN
  IF Ok(S1) /\ S1.ret = "accepted" THEN CompletionCheck(S1, ch) ELSE S1

\* TensorCodec.compress: the key's tags get 'compressed' for a lossless and
\* 'lossy_compressed' for a lossy compression
compress(tags, lossless) ==
  Append(tags, IF lossless THEN "compressed" ELSE "lossy_compressed")

\* Aggregator._nparray_to_named_tensor with send_model_deltas=True.  An
\* aggregated tensor goes out as a delta against the model of the round
\* before, compressed with lossless=compress_lossless; any other tensor is
\* compressed with require_lossless=True.  Both replies are built with
\* construct_named_tensor(..., lossless=compress_lossless).
nparray_to_named_tensor(S, round_number, tags, compress_lossless) ==
  IF InSeq("aggregated", tags)
  THEN IF <<round_number - 1, <<"model">>>> \notin S.tensor_db
       THEN Raise(S, "AssertionError")
       ELSE [S EXCEPT !.named_tensor =
               [tags |-> compress(Append(tags, "delta"), compress_lossless),
                lossless |-> compress_lossless]]
  ELSE [S EXCEPT !.named_tensor =
          [tags |-> compress(tags, TRUE), lossless |-> compress_lossless]]

\* Aggregator.get_aggregated_tensor.  The lookup is repeated for up to 60
\* seconds; a call that finds the tensor while it waits replies as a call
\* made later does, one that does not raises ValueError (line 559).
get_aggregated_tensor(S, round_number, tags, require_lossless) ==
  LET \* lines 531-534: change_tags(tags, remove_field=...)
      stripped(requested) ==
        SelectSeq(requested, LAMBDA tag : tag \notin {"compressed", "lossy_compressed"})
      \* lines 541-546
      agg_tensor_key(key_tags) ==
        IF InSeq("aggregated", key_tags) /\ InSeq("delta", key_tags) /\ round_number # 0
        THEN <<"aggregated">> ELSE key_tags
      reply(key_tags) ==
        IF <<round_number, key_tags>> \notin S.tensor_db
        THEN Raise(S, "ValueError")
        ELSE nparray_to_named_tensor(S, round_number, key_tags,
                                     InSeq("compressed", tags) \/ require_lossless)
  IN reply(agg_tensor_key(stripped(tags)))

\* the errors of add_collaborator and remove_collaborator (lines 1088, 1092,
\* 1117, 1121), and the one list.remove raises for a value the list lacks
AlreadyQueuedToAdd == "ValueError: was already requested to be added"
AlreadyAuthorized == "ValueError: was already authorized"
AlreadyQueuedToRemove == "ValueError: was already requested to be removed"
AlreadyNotAuthorized == "ValueError: is already not authorized"
ListRemoveError == "ValueError: list.remove(x): x not in list"

\* Aggregator.add_collaborator.  self.collaborators_to_remove.remove(collaborator_cn)
\* runs on a list that holds (label, cn) tuples only: the str cn equals none of
\* them, and list.remove raises ValueError leaving the list as it was.
add_collaborator_unchecked(S, collaborator_label, collaborator_cn) ==
  [S EXCEPT !.collaborators_to_add = Append(@, <<collaborator_label, collaborator_cn>>)]

add_collaborator(S, collaborator_label, collaborator_cn) ==
  IF InSeq(<<collaborator_label, collaborator_cn>>, S.collaborators_to_remove)
  THEN Raise(S, ListRemoveError)
  ELSE IF InSeq(<<collaborator_label, collaborator_cn>>, S.collaborators_to_add)
  THEN Raise(S, AlreadyQueuedToAdd)
  ELSE IF InSeq(collaborator_cn, S.authorized_cols)
  THEN Raise(S, AlreadyAuthorized)
  ELSE [S EXCEPT !.collaborators_to_add = Append(@, <<collaborator_label, collaborator_cn>>)]

\* Aggregator.remove_collaborator
remove_collaborator(S, collaborator_label, collaborator_cn) ==
  IF InSeq(<<collaborator_label, collaborator_cn>>, S.collaborators_to_add)
  THEN Raise(S, ListRemoveError)
  ELSE IF InSeq(<<collaborator_label, collaborator_cn>>, S.collaborators_to_remove)
  THEN Raise(S, AlreadyQueuedToRemove)
  ELSE IF ~InSeq(collaborator_cn, S.authorized_cols)
  THEN Raise(S, AlreadyNotAuthorized)
  ELSE [S EXCEPT !.collaborators_to_remove = Append(@, <<collaborator_label, collaborator_cn>>)]

\* CutoffTimeBasedStragglerHandling.set_straggler_cutoff_time, reached through
\* Aggregator.set_straggler_cutoff_time; self.callback is
\* Aggregator._straggler_cutoff_time_elapsed
set_straggler_cutoff_time(S, straggler_cutoff_time, ch) ==
  LET S1 == SetCutoffTime(reset_policy_for_round(S), straggler_cutoff_time) IN
  IF straggler_time_expired(S1)
  THEN IF S1.callback_set THEN straggler_cutoff_time_elapsed(S1, ch)
       ELSE Raise(S1, "AttributeError")
  ELSE IF S1.round_start_time = None THEN Raise(S1, "TypeError")
       ELSE IF ~S1.callback_set THEN Raise(S1, "AttributeError")
            ELSE [S1 EXCEPT !.timer = S1.round_start_time + S1.straggler_cutoff_time]


\* the falsy failed_collaborator (None, the default of stop)
NoCollaborator == ""

\* how often the list holds the value
CountInSeq(x, seq) == Cardinality({i \in DOMAIN seq : seq[i] = x})

all_quit_jobs_sent_never(S) == FALSE

\* Aggregator.all_quit_jobs_sent: set(quit_job_sent_to) == set(authorized_cols)
all_quit_jobs_sent(S) ==
  {c \in DOMAIN S.quit_job_sent_to : S.quit_job_sent_to[c] > 0} = SeqToSet(S.authorized_cols)

\* Aggregator.stop: the failed collaborator is appended first, then every
\* other entry of authorized_cols
stop(S, failed_collaborator) ==
  LET S1 == IF failed_collaborator # NoCollaborator
            THEN [S EXCEPT !.quit_job_sent_to[failed_collaborator] = @ + 1]
            ELSE S
  IN [S1 EXCEPT !.quit_job_sent_to =
        [c \in DOMAIN @ |->
           IF c # failed_collaborator THEN @[c] + CountInSeq(c, S1.authorized_cols) ELSE @[c]]]

\* ---------------------------------------------------------- admin transport
\* admins_endpoints_mapping of the plan: admin common name -> allowed endpoints
AdminsEndpointsMapping ==
  [a \in {"admin1", "admin2"} |->
     IF a = "admin1" THEN {"AddCollaborator", "RemoveCollaborator"}
     ELSE {"GetExperimentStatus"}]

\* certificate common names and header senders that show up at the server
AdminCNs == {"admin1", "admin2", "mallory"}
Endpoints == {"AddCollaborator", "RemoveCollaborator", "GetExperimentStatus"}

\* Aggregator.valid_admin_cn_and_id
valid_admin_cn_and_id(cert_common_name, admin_common_name) ==
  /\ cert_common_name = admin_common_name
  /\ admin_common_name \in DOMAIN AdminsEndpointsMapping

\* Aggregator.valid_admin_endpoint(endpoint_id, admin_common_name)
valid_admin_endpoint(endpoint_id, admin_common_name) ==
  endpoint_id \in AdminsEndpointsMapping[admin_common_name]

\* AggregatorGRPCServer.validate_admin.  Line 119 calls
\* self.aggregator.valid_admin_endpoint(endpoint_name) with one argument for
\* the two the method takes: the call raises TypeError before the method body
\* runs, whatever the endpoint.
validate_admin(S, tls, cert_common_name, sender, endpoint_name) ==
  IF tls /\ ~valid_admin_cn_and_id(cert_common_name, sender)
  THEN Raise(S, "UNAUTHENTICATED")
  ELSE Raise(S, "TypeError")

\* AggregatorGRPCServer.check_admin_request: self.aggregator.admins is an
\* attribute the Aggregator never sets
check_admin_request(S, sender) == Raise(S, "AttributeError")

\* Aggregator.get_experiment_status reads the state
get_experiment_status(S) == S

\* the admin handlers of the server: AddCollaborator, RemoveCollaborator,
\* GetExperimentStatus.  S.ret = "reached" once the Aggregator method is called.
AdminRpc(S, tls, cert_common_name, sender, endpoint_name, pair) ==
  LET S1 == validate_admin(S, tls, cert_common_name, sender, endpoint_name)
      S2 == IF Ok(S1) THEN check_admin_request(S1, sender) ELSE S1
  IN IF ~Ok(S2) THEN S2
     ELSE IF endpoint_name = "AddCollaborator"
          THEN [add_collaborator(S2, pair[1], pair[2]) EXCEPT !.ret = "reached"]
     ELSE IF endpoint_name = "RemoveCollaborator"
          THEN [remove_collaborator(S2, pair[1], pair[2]) EXCEPT !.ret = "reached"]
     ELSE [get_experiment_status(S2) EXCEPT !.ret = "reached"]

\* =================================================================== state
VARIABLES
  now,                        \* time.time()
  rounds_to_train, round_number, end_of_round_check_done, policy_started,
  stragglers, available_collaborators, authorized_cols, quit_job_sent_to,
  collaborator_tasks_results, collaborator_task_weight, collaborators_done,
  first_col_start, collaborators_to_add, collaborators_to_remove,
  \* straggler policy
  round_start_time, straggler_cutoff_time, minimum_reporting, timer, callback_set,
  \* assigner
  task_groups, assigner_authorized_cols, collaborators_to_assign,
  collaborator_tasks, collaborators_for_task,
  \* dynamic task args: the plan's entries with their pending values, and the
  \* values handed to tensor_db.cache_dynamic_arg per round
  dynamictaskargs, dynamic_args,
  \* bookkeeping of the model: how often line 1155 was passed per round, how
  \* often each TaskResultKey was stored
  eor_runs, accepted,
  \* the TensorKeys of the aggregator's own tensors in the tensor database
  \* (round, tags), the best validation score, how often the best checkpoint
  \* was written, and the last reply of get_aggregated_tensor
  tensor_db, best_model_score, best_saves, named_tensor,
  \* where each thread that runs _end_of_round_check stands in it
  eor_threads

vars == <<now, rounds_to_train, round_number, end_of_round_check_done, policy_started, stragglers,
          available_collaborators, authorized_cols, quit_job_sent_to,
          collaborator_tasks_results, collaborator_task_weight, collaborators_done,
          first_col_start, collaborators_to_add, collaborators_to_remove,
          round_start_time, straggler_cutoff_time, minimum_reporting, timer,
          callback_set, task_groups, assigner_authorized_cols, collaborators_to_assign,
          collaborator_tasks, collaborators_for_task, dynamictaskargs, dynamic_args,
          eor_runs, accepted, tensor_db, best_model_score, best_saves, named_tensor,
          eor_threads>>

\* the state as a record, as the handlers take it
Cur ==
  [now |-> now, round_number |-> round_number, rounds_to_train |-> rounds_to_train,
   end_of_round_check_done |-> end_of_round_check_done,
   policy_started |-> policy_started, stragglers |-> stragglers,
   available_collaborators |-> available_collaborators,
   authorized_cols |-> authorized_cols, quit_job_sent_to |-> quit_job_sent_to,
   collaborator_tasks_results |-> collaborator_tasks_results,
   collaborator_task_weight |-> collaborator_task_weight,
   collaborators_done |-> collaborators_done, first_col_start |-> first_col_start,
   collaborators_to_add |-> collaborators_to_add,
   collaborators_to_remove |-> collaborators_to_remove,
   round_start_time |-> round_start_time,
   straggler_cutoff_time |-> straggler_cutoff_time,
   minimum_reporting |-> minimum_reporting, timer |-> timer,
   callback_set |-> callback_set, task_groups |-> task_groups,
   assigner_authorized_cols |-> assigner_authorized_cols,
   collaborators_to_assign |-> collaborators_to_assign,
   collaborator_tasks |-> collaborator_tasks,
   collaborators_for_task |-> collaborators_for_task,
   dynamictaskargs |-> dynamictaskargs, dynamic_args |-> dynamic_args,
   eor_runs |-> eor_runs, accepted |-> accepted,
   tensor_db |-> tensor_db, best_model_score |-> best_model_score,
   best_saves |-> best_saves, named_tensor |-> named_tensor,
   exc |-> "none", ret |-> "none", rnd |-> FALSE, defer |-> FALSE, entered |-> FALSE]

\* the task_name argument of send_local_task_results is whatever string the
\* collaborator sends: the names of the plan's tasks and one that is in no
\* task group
SubmittedTasks == TaskNames \cup {"other"}

AllKeys == SubmittedTasks \X CNs \X Rounds

\* the plans explored: task groups, straggler_cutoff_time, minimum_reporting
OneGroup == CHOOSE g \in GroupConfigs : Len(g) = 1
TwoGroups == CHOOSE g \in GroupConfigs : Len(g) = 2
Plans ==
  { [groups |-> OneGroup, cutoff |-> MINIMUM_CUTOFF_SECONDS, min_rep |-> 1, rounds |-> RoundsToTrain],
    [groups |-> OneGroup, cutoff |-> MINIMUM_CUTOFF_SECONDS, min_rep |-> 2, rounds |-> RoundsToTrain],
    [groups |-> OneGroup, cutoff |-> NP_INF, min_rep |-> 1, rounds |-> RoundsToTrain] }
\* a plan with no cutoff, for the runs of the admin calls
AdminPlans == { [groups |-> OneGroup, cutoff |-> NP_INF, min_rep |-> 1, rounds |-> RoundsToTrain] }
\* a plan with one task per group
GroupPlans == { [groups |-> TwoGroups, cutoff |-> MINIMUM_CUTOFF_SECONDS, min_rep |-> 1, rounds |-> RoundsToTrain] }

\* what a run draws at random: the order np.random.choice gives the
\* collaborators in each round that is planned, and the order in which the
\* set of task names is iterated
Choices(from_round) ==
  [perms : [from_round .. (RoundsToTrain - 1) -> Perms(CNs)], order : Perms(TaskNames)]

\* dynamictaskargs of the plan, one entry per (task, argument); None (the
\* default) has no entry
NoDynamicTaskArgs == <<>>
DynamicTaskArgsOf(plan) ==
  IF "dynamictaskargs" \in DOMAIN plan THEN plan.dynamictaskargs ELSE NoDynamicTaskArgs

\* Assigner.__init__ and define_task_assignments: empty lists for every
\* authorized collaborator and every task of the groups
Constructed(groups, cutoff, min_rep, rounds) ==
  [now |-> 0, round_number |-> 0, rounds_to_train |-> rounds,
   end_of_round_check_done |-> [r \in 0 .. (rounds - 1) |-> FALSE],
   policy_started |-> FALSE, stragglers |-> {}, available_collaborators |-> {},
   authorized_cols |-> InitialAuthorized, quit_job_sent_to |-> ZeroCount,
   collaborator_tasks_results |-> <<>>, collaborator_task_weight |-> <<>>,
   collaborators_done |-> ZeroCount, first_col_start |-> None,
   collaborators_to_add |-> <<>>, collaborators_to_remove |-> <<>>,
   round_start_time |-> None, straggler_cutoff_time |-> cutoff,
   minimum_reporting |-> min_rep, timer |-> None, callback_set |-> FALSE,
   task_groups |-> groups, assigner_authorized_cols |-> InitialAuthorized,
   collaborators_to_assign |-> SeqToSet(InitialAuthorized),
   collaborator_tasks |-> [c \in SeqToSet(InitialAuthorized) |->
                            [i \in 0 .. (rounds - 1) |-> <<>>]],
   collaborators_for_task |-> [t \in AllTasksInGroups(groups) |->
                                [i \in 0 .. (rounds - 1) |-> {}]],
   dynamictaskargs |-> NoDynamicTaskArgs, dynamic_args |-> <<>>,
   eor_runs |-> [r \in Rounds |-> 0], accepted |-> [k \in AllKeys |-> 0],
   tensor_db |-> {<<0, <<"model">>>>}, best_model_score |-> NoScore,
   best_saves |-> 0, named_tensor |-> [tags |-> <<>>, lossless |-> FALSE],
   exc |-> "none", ret |-> "none", rnd |-> FALSE, defer |-> FALSE, entered |-> FALSE]

\* the threads that can be inside a handler: two gRPC workers and the
\* threading.Timer thread
Threads == {"rpc", "rpc2", "timer"}
Idle == [stage |-> "idle", round |-> None, call |-> <<>>]

\* the state after a call is the record the handler returns
CommitState(S) ==
  /\ now' = S.now
  /\ rounds_to_train' = S.rounds_to_train
  /\ round_number' = S.round_number
  /\ end_of_round_check_done' = S.end_of_round_check_done
  /\ policy_started' = S.policy_started
  /\ stragglers' = S.stragglers
  /\ available_collaborators' = S.available_collaborators
  /\ authorized_cols' = S.authorized_cols
  /\ quit_job_sent_to' = S.quit_job_sent_to
  /\ collaborator_tasks_results' = S.collaborator_tasks_results
  /\ collaborator_task_weight' = S.collaborator_task_weight
  /\ collaborators_done' = S.collaborators_done
  /\ first_col_start' = S.first_col_start
  /\ collaborators_to_add' = S.collaborators_to_add
  /\ collaborators_to_remove' = S.collaborators_to_remove
  /\ round_start_time' = S.round_start_time
  /\ straggler_cutoff_time' = S.straggler_cutoff_time
  /\ minimum_reporting' = S.minimum_reporting
  /\ timer' = S.timer
  /\ callback_set' = S.callback_set
  /\ task_groups' = S.task_groups
  /\ assigner_authorized_cols' = S.assigner_authorized_cols
  /\ collaborators_to_assign' = S.collaborators_to_assign
  /\ collaborator_tasks' = S.collaborator_tasks
  /\ collaborators_for_task' = S.collaborators_for_task
  /\ dynamictaskargs' = S.dynamictaskargs
  /\ dynamic_args' = S.dynamic_args
  /\ eor_runs' = S.eor_runs
  /\ accepted' = S.accepted
  /\ tensor_db' = S.tensor_db
  /\ best_model_score' = S.best_model_score
  /\ best_saves' = S.best_saves
  /\ named_tensor' = S.named_tensor

\* a handler that runs from its first line to its last in one step
Commit(S) == CommitState(S) /\ UNCHANGED eor_threads


\* ------------------------------------------------------------------- Init
\* Aggregator.__init__ with a DynamicRandomGroupedAssigner (which plans all
\* rounds at construction) and a CutoffTimeBasedStragglerHandling policy
InitWith(plans) ==
  \E plan \in plans, ch \in Choices(0) :
    LET S == assign_tasks(
               write_dynamic_task_args(
                 [Constructed(plan.groups, plan.cutoff, plan.min_rep, plan.rounds)
                    EXCEPT !.dynamictaskargs = DynamicTaskArgsOf(plan)]),
               0, ch.perms) IN
    /\ Ok(S)
    /\ now = S.now
    /\ rounds_to_train = S.rounds_to_train
    /\ round_number = S.round_number
    /\ end_of_round_check_done = S.end_of_round_check_done
    /\ policy_started = S.policy_started
    /\ stragglers = S.stragglers
    /\ available_collaborators = S.available_collaborators
    /\ authorized_cols = S.authorized_cols
    /\ quit_job_sent_to = S.quit_job_sent_to
    /\ collaborator_tasks_results = S.collaborator_tasks_results
    /\ collaborator_task_weight = S.collaborator_task_weight
    /\ collaborators_done = S.collaborators_done
    /\ first_col_start = S.first_col_start
    /\ collaborators_to_add = S.collaborators_to_add
    /\ collaborators_to_remove = S.collaborators_to_remove
    /\ round_start_time = S.round_start_time
    /\ straggler_cutoff_time = S.straggler_cutoff_time
    /\ minimum_reporting = S.minimum_reporting
    /\ timer = S.timer
    /\ callback_set = S.callback_set
    /\ task_groups = S.task_groups
    /\ assigner_authorized_cols = S.assigner_authorized_cols
    /\ collaborators_to_assign = S.collaborators_to_assign
    /\ collaborator_tasks = S.collaborator_tasks
    /\ collaborators_for_task = S.collaborators_for_task
    /\ dynamictaskargs = S.dynamictaskargs
    /\ dynamic_args = S.dynamic_args
    /\ eor_runs = S.eor_runs
    /\ accepted = S.accepted
    /\ tensor_db = S.tensor_db
    /\ best_model_score = S.best_model_score
    /\ best_saves = S.best_saves
    /\ named_tensor = S.named_tensor
    /\ eor_threads = [th \in Threads |-> Idle]

\* ---------------------------------------------------------------- actions
\* the random draws a call can consume: one default draw when the call
\* consumes none
Draws(used) ==
  IF used THEN Choices(round_number + 1)
  ELSE {CHOOSE ch \in Choices(round_number + 1) : TRUE}

Ch0 == CHOOSE ch \in Choices(round_number + 1) : TRUE

\* GetTasks RPC; the transport admits only senders in authorized_cols
GetTasks(c) ==
  /\ InSeq(c, authorized_cols)
  /\ time_to_quit(Cur) => quit_job_sent_to[c] < MaxQuitSends
  /\ Commit(get_tasks(Cur, c))

\* SendLocalTaskResults RPC
SendLocalTaskResults(c, r, t, p) ==
  /\ InSeq(c, authorized_cols)
  /\ \E ch \in Draws(send_local_task_results(Cur, c, r, t, p, Ch0).rnd) :
       Commit(send_local_task_results(Cur, c, r, t, p, ch))

\* the pending threading.Timer runs its callback
TimerFires ==
  /\ timer # None
  /\ now > timer
  /\ LET S == [Cur EXCEPT !.timer = None] IN
     \E ch \in Draws(straggler_cutoff_time_elapsed(S, Ch0).rnd) :
       Commit(straggler_cutoff_time_elapsed(S, ch))

AddCollaborator(pair) ==
  Commit(add_collaborator(Cur, pair[1], pair[2]))

RemoveCollaborator(pair) ==
  Commit(remove_collaborator(Cur, pair[1], pair[2]))

SetStragglerCutoffTime(new) ==
  \E ch \in Draws(set_straggler_cutoff_time(Cur, new, Ch0).rnd) :
    Commit(set_straggler_cutoff_time(Cur, new, ch))

\* time passes while a timer is pending; from MaxTime on every deadline the
\* model can set has passed.
Tick ==
  /\ timer # None
  /\ now < MaxTime
  /\ \E d \in TickSteps : Commit([Cur EXCEPT !.now = now + d])

Init == InitWith(Plans)

Next ==
  \/ \E c \in CNs : GetTasks(c)
  \/ \E c \in CNs, r \in 0 .. RoundsToTrain, t \in TaskNames :
       SendLocalTaskResults(c, r, t, SentPayload)
  \/ TimerFires
  \/ \E pair \in AdminPairs : AddCollaborator(pair)
  \/ \E pair \in AdminPairs : RemoveCollaborator(pair)
  \/ \E new \in CutoffInputs : SetStragglerCutoffTime(new)
  \/ Tick

Spec == Init /\ [][Next]_vars

\* the admin calls with more collaborators and labels, under a plan with no
\* cutoff (no timer is ever started)
NextAdmin ==
  \/ \E c \in CNs : GetTasks(c)
  \/ \E c \in CNs, r \in 0 .. RoundsToTrain, t \in TaskNames :
       SendLocalTaskResults(c, r, t, SentPayload)
  \/ \E pair \in AdminPairs2 : AddCollaborator(pair)
  \/ \E pair \in AdminPairs2 : RemoveCollaborator(pair)

SpecAdmin == InitWith(AdminPlans) /\ [][NextAdmin]_vars

\* the rounds under a plan with two task groups
NextGroups ==
  \/ \E c \in CNs : GetTasks(c)
  \/ \E c \in CNs, r \in 0 .. RoundsToTrain, t \in TaskNames :
       SendLocalTaskResults(c, r, t, SentPayload)
  \/ TimerFires
  \/ Tick

SpecGroups == InitWith(GroupPlans) /\ [][NextGroups]_vars

\* the handlers on two threads: a thread that passes the guard of
\* _end_of_round_check (line 1153) stops there, and runs lines 1157-1160 and
\* lines 1163-1250 in two later steps, with the steps of the other thread and
\* further calls in between.  No lock is taken anywhere in the aggregator.
Deferred == [Cur EXCEPT !.defer = TRUE]

Stand(S, th) ==
  [eor_threads EXCEPT ![th] = IF S.entered
                               THEN [stage |-> "guard_passed", round |-> round_number, call |-> <<>>]
                               ELSE Idle]

ConcSendLocalTaskResults(c, r, t, p) ==
  /\ InSeq(c, authorized_cols)
  /\ eor_threads["rpc"] = Idle
  /\ LET S == send_local_task_results(Deferred, c, r, t, p, Ch0) IN
       CommitState(S) /\ eor_threads' = Stand(S, "rpc")

ConcTimerFires ==
  /\ timer # None
  /\ now > timer
  /\ eor_threads["timer"] = Idle
  /\ LET S == straggler_cutoff_time_elapsed([Deferred EXCEPT !.timer = None], Ch0) IN
       CommitState(S) /\ eor_threads' = Stand(S, "timer")

ConcMetrics(th) ==
  /\ eor_threads[th].stage = "guard_passed"
  /\ \E ch \in Draws(EndOfRoundMetrics(Cur, Ch0).rnd) :
       LET S == EndOfRoundMetrics(Cur, ch) IN
       /\ CommitState(S)
       /\ eor_threads' = [eor_threads EXCEPT ![th] =
                            IF Ok(S) THEN [@ EXCEPT !.stage = "metrics_done"] ELSE Idle]

ConcAdvance(th) ==
  /\ eor_threads[th].stage = "metrics_done"
  /\ \E ch \in Draws(EndOfRoundAdvance(Cur, Ch0).rnd) :
       /\ CommitState(EndOfRoundAdvance(Cur, ch))
       /\ eor_threads' = [eor_threads EXCEPT ![th] = Idle]

EorThreads == {"rpc", "timer"}
ConcPlans == { [groups |-> OneGroup, cutoff |-> MINIMUM_CUTOFF_SECONDS, min_rep |-> 1, rounds |-> RoundsToTrain] }
NextConc ==
  \/ \E c \in CNs : GetTasks(c)
  \/ \E c \in CNs, r \in 0 .. RoundsToTrain, t \in TaskNames :
       ConcSendLocalTaskResults(c, r, t, SentPayload)
  \/ ConcTimerFires
  \/ \E th \in EorThreads : ConcMetrics(th)
  \/ \E th \in EorThreads : ConcAdvance(th)
  \/ Tick

SpecConc == InitWith(ConcPlans) /\ [][NextConc]_vars

\* two send_local_task_results calls on two gRPC workers: a call that passes
\* the checks of lines 667-692 stops there and stores its result (line 701 on)
\* in a later step
Workers == {"rpc", "rpc2"}

RaceCheck(th, c, r, t) ==
  /\ InSeq(c, authorized_cols)
  /\ eor_threads[th] = Idle
  /\ LET S == AcceptGuard(Cur, c, r, t) IN
     /\ Ok(S) /\ S.ret = "pass"
     /\ eor_threads' = [eor_threads EXCEPT ![th] =
                          [stage |-> "checked", round |-> r, call |-> <<c, t>>]]
     /\ UNCHANGED <<now, rounds_to_train, round_number, end_of_round_check_done, policy_started,
                    stragglers, available_collaborators, authorized_cols,
                    quit_job_sent_to, collaborator_tasks_results,
                    collaborator_task_weight, collaborators_done, first_col_start,
                    collaborators_to_add, collaborators_to_remove, round_start_time,
                    straggler_cutoff_time, minimum_reporting, timer, callback_set,
                    task_groups, assigner_authorized_cols, collaborators_to_assign,
                    collaborator_tasks, collaborators_for_task, dynamictaskargs,
                    dynamic_args, eor_runs, accepted, tensor_db, best_model_score,
                    best_saves, named_tensor>>

StoreAndComplete(S, c, r, t, p, ch) ==
  LET S1 == AcceptStore(S, c, r, t, p) IN
  IF Ok(S1) /\ S1.ret = "accepted" THEN CompletionCheck(S1, ch) ELSE S1

RaceStore(th, p) ==
  /\ eor_threads[th].stage = "checked"
  /\ LET c == eor_threads[th].call[1]
         t == eor_threads[th].call[2]
         r == eor_threads[th].round
     IN \E ch \in Draws(StoreAndComplete(Cur, c, r, t, p, Ch0).rnd) :
          CommitState(StoreAndComplete(Cur, c, r, t, p, ch))
  /\ eor_threads' = [eor_threads EXCEPT ![th] = Idle]

NextRace ==
  \/ \E c \in CNs : GetTasks(c)
  \/ \E th \in Workers, c \in CNs, r \in 0 .. RoundsToTrain, t \in TaskNames :
       RaceCheck(th, c, r, t)
  \/ \E th \in Workers : RaceStore(th, SentPayload)

SpecRace == InitWith({[groups |-> OneGroup, cutoff |-> NP_INF, min_rep |-> 1,
                       rounds |-> RoundsToTrain - 1]}) /\ [][NextRace]_vars

\* the coordinator is force-stopped by its owner: stop() can come at any
\* moment of a run, with no failed collaborator, with an authorized one, or
\* with a name that is not authorized.  The admin queues removals of one cn
\* under either of two labels.
FailedCollaborators == {NoCollaborator, "A", "D"}

Stop(failed) ==
  /\ \A c \in CNs : quit_job_sent_to[c] < MaxQuitSends
  /\ Commit(stop(Cur, failed))

NextStop ==
  \/ \E c \in CNs : GetTasks(c)
  \/ \E c \in CNs, r \in 0 .. RoundsToTrain, t \in TaskNames :
       SendLocalTaskResults(c, r, t, SentPayload)
  \/ \E pair \in AdminPairs \cup {<<"L2", "B">>} : RemoveCollaborator(pair)
  \/ \E failed \in FailedCollaborators : Stop(failed)

SpecStop == InitWith(AdminPlans) /\ [][NextStop]_vars

\* the callback of a threading.Timer that has left its wait (Timer.run, past
\* the test of the finished event) but has not yet run
\* _straggler_cutoff_time_elapsed: timer.cancel() no longer stops it, and no
\* lock orders it with the gRPC handlers.  The thread remembers the round in
\* which its timer was armed.
TimerRelease ==
  /\ timer # None
  /\ now > timer
  /\ eor_threads["timer"] = Idle
  /\ CommitState([Cur EXCEPT !.timer = None])
  /\ eor_threads' = [eor_threads EXCEPT !["timer"] =
                       [stage |-> "fired", round |-> round_number, call |-> <<>>]]

TimerRun ==
  /\ eor_threads["timer"].stage = "fired"
  /\ \E ch \in Draws(straggler_cutoff_time_elapsed(Cur, Ch0).rnd) :
       CommitState(straggler_cutoff_time_elapsed(Cur, ch))
  /\ eor_threads' = [eor_threads EXCEPT !["timer"] = Idle]

NextStale ==
  \/ \E c \in CNs : GetTasks(c)
  \/ \E c \in CNs, r \in 0 .. RoundsToTrain, t \in TaskNames :
       SendLocalTaskResults(c, r, t, SentPayload)
  \/ TimerRelease
  \/ TimerRun
  \/ Tick

SpecStale == InitWith(ConcPlans) /\ [][NextStale]_vars

\* the admin RPCs as the gRPC server receives them (tls on, the default),
\* next to the collaborators' calls
AdminCall(cert, sender, endpoint, pair) ==
  Commit(AdminRpc(Cur, TRUE, cert, sender, endpoint, pair))

NextRpc ==
  \/ \E c \in CNs : GetTasks(c)
  \/ \E c \in CNs, r \in 0 .. RoundsToTrain, t \in TaskNames :
       SendLocalTaskResults(c, r, t, SentPayload)
  \/ \E cert \in AdminCNs, sender \in AdminCNs, endpoint \in Endpoints, pair \in AdminPairs2 :
       AdminCall(cert, sender, endpoint, pair)

SpecRpc == InitWith(AdminPlans) /\ [][NextRpc]_vars

\* plans with one dynamic task arg, [min, max] = [1, 3]; the plan's initial
\* value is whatever the plan file says
DynKey == <<"train", "epochs">>
DynInitialValues == {2, 5}
\* the arguments of set_dynamic_task_arg
DynArgNames == {"epochs", "batch"}
DynValues == {0, 1, 3, 4}

SetDynamicTaskArg(task_name, arg_name, value) ==
  Commit(set_dynamic_task_arg(Cur, task_name, arg_name, value))

NextDyn ==
  \/ \E c \in CNs : GetTasks(c)
  \/ \E c \in CNs, r \in 0 .. RoundsToTrain, t \in TaskNames :
       SendLocalTaskResults(c, r, t, SentPayload)
  \/ \E t \in TaskNames, a \in DynArgNames, v \in DynValues : SetDynamicTaskArg(t, a, v)

SpecDyn ==
  /\ InitWith({ [groups |-> OneGroup, cutoff |-> NP_INF, min_rep |-> 1,
                 rounds |-> RoundsToTrain,
                 dynamictaskargs |-> [k \in {DynKey} |-> [min |-> 1, max |-> 3, value |-> v]]]
               : v \in DynInitialValues })
  /\ [][NextDyn]_vars

\* collaborators that behave as the collaborator client does: each polls
\* get_tasks, and after a poll of the current round sends the results of the
\* tasks the coordinator holds for it, one task after the other.  A result
\* sent by a collaborator in stragglers returns at line 667 and changes
\* nothing: it is not counted as work the collaborator has left.
HasWork(c) ==
  /\ InSeq(c, authorized_cols)
  /\ ~time_to_quit(Cur)
  /\ c \in available_collaborators
  /\ c \notin stragglers
  /\ c \in DOMAIN collaborator_tasks
  /\ NotCompleted(Cur, c, get_tasks_for_collaborator(Cur, c, round_number)) # <<>>

LiveSubmit(c) ==
  /\ HasWork(c)
  /\ SendLocalTaskResults(
       c, round_number,
       Head(NotCompleted(Cur, c, get_tasks_for_collaborator(Cur, c, round_number))),
       SentPayload)

\* the deadline of the pending timer has passed
TimerDue == timer # None /\ now > timer

NextLive ==
  \/ \E c \in CNs : GetTasks(c)
  \/ \E c \in CNs : LiveSubmit(c)
  \/ TimerFires
  \/ Tick

\* every collaborator keeps polling and time passes; that the collaborators
\* submit and that a timer whose deadline has passed runs its callback is the
\* hypothesis of the liveness property
SpecLive ==
  /\ InitWith(ConcPlans \cup AdminPlans \cup GroupPlans)
  /\ [][NextLive]_vars
  /\ \A c \in CNs : WF_vars(GetTasks(c))
  /\ WF_vars(Tick)

\* submissions that carry any task name, assigned to the sender or not, under
\* one-round plans with and without a cutoff, with one and with two task groups
NextTasks ==
  \/ \E c \in CNs : GetTasks(c)
  \/ \E c \in CNs, r \in 0 .. RoundsToTrain, t \in SubmittedTasks :
       SendLocalTaskResults(c, r, t, SentPayload)
  \/ TimerFires
  \/ Tick

SpecTasks ==
  /\ InitWith({[groups |-> g, cutoff |-> cutoff, min_rep |-> 1,
                rounds |-> RoundsToTrain - 1] :
                g \in GroupConfigs, cutoff \in {MINIMUM_CUTOFF_SECONDS, NP_INF}})
  /\ [][NextTasks]_vars

\* the race of a submission with the cutoff callback: a send_local_task_results
\* call that has passed the checks of lines 667-692 stores its result while
\* the Timer thread stands between _end_round_due_to_stragglers (lines
\* 748-751) and the aggregation of lines 1157-1160
NextRaceTimer ==
  \/ \E c \in CNs : GetTasks(c)
  \/ \E th \in Workers, c \in CNs, r \in 0 .. RoundsToTrain, t \in TaskNames :
       RaceCheck(th, c, r, t)
  \/ \E th \in Workers : RaceStore(th, SentPayload)
  \/ ConcTimerFires
  \/ ConcMetrics("timer")
  \/ ConcAdvance("timer")
  \/ Tick

SpecRaceTimer ==
  /\ InitWith({[groups |-> OneGroup, cutoff |-> MINIMUM_CUTOFF_SECONDS, min_rep |-> 1,
                rounds |-> RoundsToTrain - 1]})
  /\ [][NextRaceTimer]_vars

\* two task groups and a collaborator added by the admin; every collaborator
\* submits the tasks the assigner gave it for the round, whether or not it
\* has polled get_tasks in that round
NextIdle ==
  \/ \E c \in CNs : GetTasks(c)
  \/ \E c \in CNs, t \in TaskNames :
       /\ round_number \in RoundsOf(Cur)
       /\ c \in get_collaborators_for_task(Cur, t, round_number)
       /\ SendLocalTaskResults(c, round_number, t, SentPayload)
  \/ AddCollaborator(<<"L1", "D">>)
  \/ TimerFires
  \/ Tick

SpecIdle == InitWith(GroupPlans) /\ [][NextIdle]_vars

\* rounds whose validation scores rise, fall and stay: the submissions differ
\* in their scores, and one carries the number of the round before
SpecBest ==
  /\ InitWith(AdminPlans)
  /\ [][ \/ \E c \in CNs : GetTasks(c)
         \/ \E c \in CNs, t \in TaskNames, p \in Payloads \cup {[data_size |-> 10, tensors |-> "t_late"]} :
              /\ round_number \in RoundsOf(Cur)
              /\ c \in get_collaborators_for_task(Cur, t, round_number)
              /\ SendLocalTaskResults(c, round_number, t, p) ]_vars

\* the collaborators' three RPCs
SpecTensors ==
  /\ InitWith(AdminPlans)
  /\ [][ \/ \E c \in CNs : GetTasks(c)
         \/ \E c \in CNs, t \in TaskNames :
              /\ round_number \in RoundsOf(Cur)
              /\ c \in get_collaborators_for_task(Cur, t, round_number)
              /\ SendLocalTaskResults(c, round_number, t, SentPayload)
         \/ \E c \in CNs, r \in 0 .. RoundsToTrain, tags \in RequestTags,
               require_lossless \in BOOLEAN :
              /\ InSeq(c, authorized_cols)
              /\ Commit(get_aggregated_tensor(Cur, r, tags, require_lossless)) ]_vars

\* ------------------------------------------------------------------ claims

\* C1: over every sequence of get_tasks, send_local_task_results, admin calls
\* and timer callbacks, round_number never decreases; it changes only in a
\* step that completes the end-of-round work of the current round (the flag
\* of that round goes from False to True), and then by exactly one.
C1_RoundMonotone ==
  [][ /\ round_number' \in {round_number, round_number + 1}
      /\ \A r \in Rounds :
           (~end_of_round_check_done[r] /\ end_of_round_check_done'[r])
             <=> (round_number = r /\ round_number' = r + 1) ]_vars

\* both rounds have been ended, one by one
C1_Witness ==
  /\ round_number = RoundsToTrain
  /\ \A r \in Rounds : end_of_round_check_done[r]

\* C2: for every round r the end-of-round work is executed at most once, also
\* when the timer callback and a send_local_task_results call that completes
\* the round run on two threads: no two threads are past the guard of the same
\* round.
C2_AtMostOnce ==
  \A r \in Rounds :
    Cardinality({th \in Threads : eor_threads[th].stage # "idle"
                                  /\ eor_threads[th].round = r}) <= 1

\* C3: for every task t, collaborator c and round r at most one
\* send_local_task_results call carrying TaskResultKey(t, c, r) is accepted
\* (stored in collaborator_task_weight and collaborator_tasks_results), over
\* any interleaving of calls.
C3_AcceptedOnce == \A k \in AllKeys : accepted[k] <= 1

\* C5: a result is inserted into collaborator_tasks_results only if the round
\* of its key equals round_number at the moment of insertion.
C5_InsertCurrentRound ==
  [][ \A k \in (DOMAIN collaborator_tasks_results') \ (DOMAIN collaborator_tasks_results) :
        k[3] = round_number ]_vars

\* C4 as stated: whenever send_local_task_results arrives with a
\* TaskResultKey that was already accepted, the call fails with the
\* duplicate-result error and the weight and tensor-key list recorded by the
\* first call stay as they were.
C4_DuplicateAlwaysFails ==
  \A c \in CNs, t \in TaskNames, r \in Rounds, p \in Payloads :
    (InSeq(c, authorized_cols) /\ TaskResultKey(t, c, r) \in DOMAIN collaborator_tasks_results)
      => LET S == send_local_task_results(Cur, c, r, t, p, Ch0)
         IN /\ S.exc = DuplicateResult
            /\ S.collaborator_task_weight = collaborator_task_weight
            /\ S.collaborator_tasks_results = collaborator_tasks_results

\* C4, amended: a call that arrives with a TaskResultKey already accepted,
\* while round_number still equals the key's round and the sender is not in
\* stragglers, fails with the duplicate-result error; a duplicate that arrives
\* later (the round has advanced, the coordinator is quitting, the sender is a
\* straggler) returns with a warning and no error.  In both cases the weight
\* and tensor-key list recorded by the first call stay as they were.
C4_DuplicateInRoundFails ==
  \A c \in CNs, t \in TaskNames, r \in Rounds, p \in Payloads :
    (InSeq(c, authorized_cols) /\ TaskResultKey(t, c, r) \in DOMAIN collaborator_tasks_results)
      => LET S == send_local_task_results(Cur, c, r, t, p, Ch0)
         IN /\ IF r = round_number /\ c \notin stragglers /\ ~time_to_quit(Cur)
               THEN S.exc = DuplicateResult
               ELSE Ok(S) /\ S.ret \in {"warn_straggler", "warn_wrong_round"}
            /\ S.collaborator_task_weight = collaborator_task_weight
            /\ S.collaborator_tasks_results = collaborator_tasks_results

\* a result of the current round is stored, and the same key sent again with
\* another payload is turned away with the duplicate-result error
C4_Witness ==
  \E c \in CNs, t \in TaskNames :
    /\ InSeq(c, authorized_cols)
    /\ TaskResultKey(t, c, round_number) \in DOMAIN collaborator_tasks_results
    /\ \E p \in Payloads :
         /\ p.tensors # collaborator_tasks_results[TaskResultKey(t, c, round_number)]
         /\ send_local_task_results(Cur, c, round_number, t, p, Ch0).exc = DuplicateResult

\* C6: in every reachable state a collaborator is in collaborators_done if and
\* only if collaborator_tasks_results holds a key of the current round for
\* every task the assigner lists for it in the current round.
C6_DoneIffAllResults ==
  round_number < rounds_to_train =>
    \A c \in DOMAIN collaborator_tasks :
      InDone(Cur, c) <=>
        \A i \in DOMAIN get_tasks_for_collaborator(Cur, c, round_number) :
          collaborator_task_completed(Cur, c,
            get_tasks_for_collaborator(Cur, c, round_number)[i], round_number)

\* C7: when the cutoff timer fires in round r with |collaborators_done| >=
\* minimum_reporting, the stragglers are the assigned collaborators that are
\* not done, the end-of-round runs so that round_number becomes r + 1, and the
\* assignees of round r + 1 are the available collaborators minus those
\* stragglers.
C7_CutoffEndsRound ==
  (timer # None /\ now > timer /\ ~time_to_quit(Cur) /\ DoneLen(Cur) >= minimum_reporting)
    => LET pre == [Cur EXCEPT !.timer = None]
           late == {c \in collaborators_to_assign : ~InDone(Cur, c)}
           S == straggler_cutoff_time_elapsed(pre, Ch0)
       IN /\ DetermineStragglers(pre).stragglers = late
          /\ S.round_number = round_number + 1
          /\ S.collaborators_to_assign = AvailableForAssigner(Cur) \ late

\* C8: for every task-group configuration whose percentages sum to 1 and
\* every size of collaborators_to_assign, assign_tasks succeeds and gives, in
\* each round >= from_round, every member of collaborators_to_assign the task
\* list of exactly one group, the groups before the last holding
\* floor(percentage * size) members and the last group the rest.
C8_AssignPartitions ==
  \A X \in SUBSET SeqToSet(assigner_authorized_cols), from_round \in RoundsOf(Cur) :
    X # {} =>
      LET S == assign_tasks([Cur EXCEPT !.collaborators_to_assign = X], from_round,
                           (CHOOSE ch \in Choices(0) : TRUE).perms)
          n == Cardinality(X)
      IN /\ Ok(S)
         /\ \A r \in from_round .. (rounds_to_train - 1) :
              /\ \A c \in X : \E g \in DOMAIN task_groups :
                     S.collaborator_tasks[c][r] = task_groups[g].tasks
              /\ \A g \in DOMAIN task_groups :
                   Cardinality({c \in X : S.collaborator_tasks[c][r] = task_groups[g].tasks})
                     = IF g < Len(task_groups)
                       THEN NumColInGroup(task_groups[g], n)
                       ELSE n - SumCounts([h \in 1 .. (Len(task_groups) - 1) |->
                                            NumColInGroup(task_groups[h], n)],
                                          1 .. (Len(task_groups) - 1))

\* the queues and authorized_cols of S are those of the current state
SameMembership(S) ==
  /\ S.collaborators_to_add = collaborators_to_add
  /\ S.collaborators_to_remove = collaborators_to_remove
  /\ S.authorized_cols = authorized_cols

\* C9: with nothing queued, add_collaborator(L, D) followed by
\* remove_collaborator(L, D) for a D that is not authorized, and
\* remove_collaborator(L, A) followed by add_collaborator(L, A) for an
\* authorized A, raise no error and leave both queues empty and
\* authorized_cols unchanged.
C9_InverseCancels ==
  \A l \in Labels, c \in CNs :
    (collaborators_to_add = <<>> /\ collaborators_to_remove = <<>>) =>
      LET first == IF InSeq(c, authorized_cols)
                   THEN remove_collaborator(Cur, l, c) ELSE add_collaborator(Cur, l, c)
          second == IF InSeq(c, authorized_cols)
                    THEN add_collaborator(first, l, c) ELSE remove_collaborator(first, l, c)
      IN Ok(first) /\ Ok(second) /\ SameMembership(second)

C11_QueuesAppliedAtEndOfRound ==
  [][ /\ (round_number' = round_number => authorized_cols' = authorized_cols)
      /\ (round_number' # round_number =>
            /\ \A i \in DOMAIN collaborators_to_add :
                 InSeq(collaborators_to_add[i][2], authorized_cols')
            /\ \A i \in DOMAIN collaborators_to_remove :
                 ~InSeq(collaborators_to_remove[i][2], authorized_cols')
            /\ collaborators_to_add' = <<>>
            /\ collaborators_to_remove' = <<>>) ]_vars

C13_StoppedIffSuperset ==
  all_quit_jobs_sent(Cur)
    <=> (SeqToSet(authorized_cols) \subseteq {c \in CNs : quit_job_sent_to[c] > 0})

\* ------------------------------------------------------------------ C14
\* C14: the handlers run atomically with respect to the round state: while a
\* thread stands inside a handler (between two of its own steps), no other
\* thread writes round_number, collaborators_done, stragglers,
\* collaborator_tasks_results or the pending queues.
C14_HandlersAtomic ==
  [][ \A th \in Threads :
        (eor_threads[th].stage # "idle" /\ eor_threads'[th] = eor_threads[th])
          => UNCHANGED <<round_number, collaborators_done, stragglers,
                         collaborator_tasks_results, collaborators_to_add,
                         collaborators_to_remove>> ]_vars

\* ------------------------------------------------------------------ C15
\* C15: a straggler-timer callback armed in round r that runs after the
\* end-of-round for r has already run is a no-op: it changes neither
\* round_number, stragglers, collaborators_done nor the assigner, and it does
\* not end round r+1.
C15_StaleCallbackNoOp ==
  [][ ( /\ eor_threads["timer"].stage = "fired"
        /\ eor_threads'["timer"].stage = "idle"
        /\ eor_threads["timer"].round < round_number )
      => UNCHANGED <<round_number, end_of_round_check_done, stragglers,
                     collaborators_done, collaborators_to_assign,
                     collaborator_tasks, collaborators_for_task>> ]_vars

\* ------------------------------------------------------------------ C16
\* C16: set_straggler_cutoff_time(new) cancels the pending timer; if the new
\* deadline (the new cutoff, not below the minimum, counted from the round's
\* start) has already passed the callback is invoked at once, otherwise the
\* call succeeds and exactly one timer is pending afterwards, armed for the
\* remaining interval: the new cutoff minus the time elapsed since the
\* round's start.
C16_SetCutoffRearms ==
  \A new \in CutoffInputs :
    LET cutoff == IF new > MINIMUM_CUTOFF_SECONDS THEN new ELSE MINIMUM_CUTOFF_SECONDS
        cancelled == [Cur EXCEPT !.timer = None, !.straggler_cutoff_time = cutoff]
        S == set_straggler_cutoff_time(Cur, new, Ch0)
    IN IF round_start_time # None /\ now - round_start_time > cutoff
       THEN S = straggler_cutoff_time_elapsed(cancelled, Ch0)
       ELSE /\ Ok(S)
            /\ S.timer # None
            /\ S.timer - now = cutoff - (now - round_start_time)
            /\ S = [cancelled EXCEPT !.timer = S.timer]

\* ------------------------------------------------------------------ C17
\* C17: straggler_cutoff_check(done, total) is true if and only if the
\* deadline of the timer armed for the current round has passed and
\* done >= minimum_reporting; in a new round, for which the policy has not
\* been started yet, it is false.
C17_CheckIffOwnTimerFired ==
  \A done \in 0 .. Cardinality(CNs) :
    straggler_cutoff_check(Cur, done, Cardinality(get_assigned_collaborators(Cur)))
      <=> ( /\ policy_started
            /\ round_start_time # None
            /\ now - round_start_time > straggler_cutoff_time
            /\ done >= minimum_reporting )

\* ------------------------------------------------------------------ C18
\* C18: an admin RPC (AddCollaborator, RemoveCollaborator,
\* GetExperimentStatus) reaches the coordinator if and only if the
\* certificate CN equals the sender, the sender is a key of
\* admins_endpoints_mapping and the endpoint is in that admin's allowed set;
\* otherwise the call is rejected as unauthenticated or unauthorized and the
\* coordinator state is unchanged.
C18_AdminReachesIffAllowed ==
  \A cert \in AdminCNs, sender \in AdminCNs, endpoint \in Endpoints, pair \in AdminPairs2 :
    LET S == AdminRpc(Cur, TRUE, cert, sender, endpoint, pair)
        allowed == /\ cert = sender
                   /\ sender \in DOMAIN AdminsEndpointsMapping
                   /\ valid_admin_endpoint(endpoint, sender)
    IN /\ (S.ret = "reached") <=> allowed
       /\ ~allowed => /\ S.exc \in {"UNAUTHENTICATED", "UNAUTHORIZED"}
                      /\ [S EXCEPT !.exc = "none"] = Cur

\* ------------------------------------------------------------------ C19
\* C19: every value published to the tensor database for a round, at
\* initialisation or at an end of round, lies within the declared [min, max]
\* of its task argument; set_dynamic_task_arg with a value outside [min, max]
\* fails with the out-of-range error and leaves the pending value unchanged.
C19_PublishedWithinRange ==
  /\ \A k \in DOMAIN dynamic_args :
       /\ dynamictaskargs[<<k[1], k[2]>>].min <= dynamic_args[k]
       /\ dynamic_args[k] <= dynamictaskargs[<<k[1], k[2]>>].max
  /\ \A p \in DOMAIN dynamictaskargs, v \in DynValues :
       (v < dynamictaskargs[p].min \/ v > dynamictaskargs[p].max)
         => LET S == set_dynamic_task_arg(Cur, p[1], p[2], v) IN
            /\ S.exc = OutOfRange
            /\ S.dynamictaskargs = dynamictaskargs

\* ------------------------------------------------------------------ C20
\* C20: if in every round each assigned collaborator eventually polls
\* get_tasks and submits a result for each task it was given, then every
\* round eventually ends, round_number eventually reaches rounds_to_train, and
\* every collaborator that keeps polling eventually receives quit=true.
C20_EventuallyQuit ==
  ( /\ \A c \in CNs : ([]<>(~HasWork(c)) \/ []<><<LiveSubmit(c)>>_vars)
    /\ ([]<>(~TimerDue) \/ []<><<TimerFires>>_vars) )
  => <>( /\ \A r \in Rounds : end_of_round_check_done[r]
         /\ round_number = rounds_to_train
         /\ \A c \in SeqToSet(authorized_cols) : quit_job_sent_to[c] > 0 )

\* ------------------------------------------------------------------ C21
\* C21: while the straggler cutoff has not fired, the end-of-round of round r
\* runs (the guard of its round is passed) only in a step after which every
\* collaborator of get_assigned_collaborators() has an accepted result for
\* each of its assigned tasks of round r: neither a submission for a task that
\* was not assigned to the sender nor an extra submission by a collaborator
\* that is already done ends the round while another assigned collaborator is
\* unfinished.
C21_EndOnlyWhenAllAssignedDone ==
  [][ ( /\ ~time_to_quit(Cur)
        /\ ~straggler_time_expired(Cur)
        /\ eor_runs'[round_number] > eor_runs[round_number] )
      => \A c \in get_assigned_collaborators(Cur) :
           \A i \in DOMAIN get_tasks_for_collaborator(Cur, c, round_number) :
             TaskResultKey(get_tasks_for_collaborator(Cur, c, round_number)[i], c, round_number)
               \in DOMAIN collaborator_tasks_results' ]_vars

\* ------------------------------------------------------------------ C22
\* C22: send_local_task_results called while the coordinator is quitting, by
\* a collaborator that is in stragglers, or with a round other than
\* round_number returns without an error and leaves collaborator_task_weight,
\* collaborator_tasks_results, collaborators_done, the tensor database and
\* round_number unchanged.
C22_RejectedLeavesState ==
  \A c \in CNs, r \in 0 .. RoundsToTrain, t \in SubmittedTasks, p \in Payloads :
    (time_to_quit(Cur) \/ c \in stragglers \/ r # round_number)
      => LET S == send_local_task_results(Cur, c, r, t, p, Ch0) IN
         /\ Ok(S)
         /\ S.ret \in {"warn_straggler", "warn_wrong_round"}
         /\ S.collaborator_task_weight = collaborator_task_weight
         /\ S.collaborator_tasks_results = collaborator_tasks_results
         /\ S.collaborators_done = collaborators_done
         /\ S.dynamic_args = dynamic_args
         /\ S.round_number = round_number
         /\ [S EXCEPT !.ret = "none"] = Cur

\* a collaborator is in stragglers while the round is still open: its result
\* for the current round is turned away, and so is a result for another round
C22_Witness ==
  /\ ~time_to_quit(Cur)
  /\ \E c \in stragglers, t \in TaskNames :
       /\ InSeq(c, authorized_cols)
       /\ ~collaborator_task_completed(Cur, c, t, round_number)
       /\ send_local_task_results(Cur, c, round_number, t, SentPayload, Ch0).ret = "warn_straggler"
  /\ \E c \in SeqToSet(authorized_cols) \ stragglers, t \in TaskNames :
       send_local_task_results(Cur, c, round_number + 1, t, SentPayload, Ch0).ret = "warn_wrong_round"

\* ------------------------------------------------------------------ C23
\* C23: a cutoff timer that fires while |collaborators_done| <
\* minimum_reporting does not end the round and marks no straggler; after it
\* has fired, the first accepted submission that brings |collaborators_done|
\* to minimum_reporting or more ends the round, the stragglers being the
\* assigned collaborators that are not done (the next assignees are the
\* available collaborators minus those), without waiting for the others.
C23_LateMinimumEndsRound ==
  /\ (TimerDue /\ ~time_to_quit(Cur) /\ DoneLen(Cur) < minimum_reporting)
       => LET S == straggler_cutoff_time_elapsed([Cur EXCEPT !.timer = None], Ch0) IN
          /\ Ok(S)
          /\ S.round_number = round_number
          /\ S.end_of_round_check_done = end_of_round_check_done
          /\ S.stragglers = stragglers
  /\ ( /\ policy_started /\ timer = None /\ straggler_time_expired(Cur)
       /\ ~time_to_quit(Cur) /\ DoneLen(Cur) < minimum_reporting )
       => \A c \in SeqToSet(authorized_cols), t \in TaskNames :
            LET S1 == AcceptResult(Cur, c, round_number, t, SentPayload)
                late == {a \in get_assigned_collaborators(S1) : ~InDone(S1, a)}
                S == send_local_task_results(Cur, c, round_number, t, SentPayload, Ch0)
            IN (Ok(S1) /\ S1.ret = "accepted" /\ DoneLen(S1) >= minimum_reporting)
                 => /\ Ok(S)
                    /\ S.round_number = round_number + 1
                    /\ S.end_of_round_check_done[round_number]
                    /\ S.collaborators_to_assign = AvailableForAssigner(S1) \ late

\* ------------------------------------------------------------------ C24
\* C24: assigner end_of_round(available, stragglers, next_round): if
\* available minus stragglers equals collaborators_to_assign as a set, no
\* task list and no reverse-index entry of any round changes; otherwise
\* collaborators_to_assign becomes available minus stragglers and only the
\* entries of rounds >= next_round are overwritten, the entries of rounds <
\* next_round staying as they were.
C24_EndOfRoundFrame ==
  \A available \in SUBSET CNs, late \in SUBSET CNs, next_round \in 0 .. RoundsToTrain,
     perm \in Perms(CNs) :
    LET S == assigner_end_of_round(Cur, available, late, next_round, [r \in Rounds |-> perm]) IN
    IF available \ late = collaborators_to_assign
    THEN /\ Ok(S)
         /\ S.collaborators_to_assign = collaborators_to_assign
         /\ S.collaborator_tasks = collaborator_tasks
         /\ S.collaborators_for_task = collaborators_for_task
    ELSE /\ S.collaborators_to_assign = available \ late
         /\ DOMAIN S.collaborator_tasks = DOMAIN collaborator_tasks
         /\ \A r \in Rounds : r < next_round =>
              /\ \A c \in DOMAIN collaborator_tasks :
                   S.collaborator_tasks[c][r] = collaborator_tasks[c][r]
              /\ \A t \in DOMAIN collaborators_for_task :
                   S.collaborators_for_task[t][r] = collaborators_for_task[t][r]

\* the end of round 0 has re-planned round 1 for fewer collaborators: the one
\* that was dropped keeps its tasks of round 0 and has none in round 1, and a
\* further end_of_round would re-plan again for some lists and not for others
C24_Witness ==
  /\ round_number = 1
  /\ collaborators_to_assign # SeqToSet(InitialAuthorized)
  /\ \E c \in SeqToSet(InitialAuthorized) \ collaborators_to_assign :
       /\ collaborator_tasks[c][0] # <<>>
       /\ collaborator_tasks[c][1] = <<>>
       /\ \A t \in DOMAIN collaborators_for_task :
            c \notin collaborators_for_task[t][1]
  /\ \E c \in collaborators_to_assign : collaborator_tasks[c][1] # <<>>
  /\ assigner_end_of_round(Cur, SeqToSet(InitialAuthorized), {}, 1,
                           [r \in Rounds |-> <<"A", "B", "D">>]).collaborator_tasks
       # collaborator_tasks

\* ------------------------------------------------------------------ C25
\* C25: after construction and after every re-planning at an end of round,
\* for every round r, collaborator c and task t: c is in
\* get_collaborators_for_task(t, r) if and only if t is in
\* get_tasks_for_collaborator(c, r); and in every round from the one planned
\* last on (the current round and the later ones) a collaborator has a
\* non-empty task list if and only if it is in collaborators_to_assign.
C25_IndexesAgree ==
  /\ \A r \in Rounds, c \in CNs, t \in DOMAIN collaborators_for_task :
       (c \in get_collaborators_for_task(Cur, t, r))
         <=> (c \in DOMAIN collaborator_tasks
                /\ InSeq(t, get_tasks_for_collaborator(Cur, c, r)))
  /\ \A r \in Rounds, c \in CNs :
       r >= round_number =>
         ((c \in DOMAIN collaborator_tasks /\ get_tasks_for_collaborator(Cur, c, r) # <<>>)
            <=> c \in get_assigned_collaborators(Cur))

\* ------------------------------------------------------------------ C26
\* C26: when a submission ends round r, the end-of-round completes without
\* error; every collaborator queued for addition during round r is among the
\* assigner's assignees afterwards and gets a non-empty task list from
\* get_tasks in round r+1, and no collaborator queued for removal during
\* round r is among the assignees of round r+1.
C26_QueuedTakeEffectNextRound ==
  \A c \in SeqToSet(authorized_cols), t \in TaskNames :
    LET S == send_local_task_results(Cur, c, round_number, t, SentPayload, Ch0) IN
    (S.round_number = round_number + 1) =>
      /\ Ok(S)
      /\ \A i \in DOMAIN collaborators_to_add :
           LET d == collaborators_to_add[i][2] IN
           /\ d \in get_assigned_collaborators(S)
           /\ ~time_to_quit(S) =>
                /\ Ok(get_tasks(S, d))
                /\ get_tasks(S, d).ret.tasks # <<>>
      /\ \A i \in DOMAIN collaborators_to_remove :
           collaborators_to_remove[i][2] \notin get_assigned_collaborators(S)

\* ------------------------------------------------------------------ C27
\* C27: in each round the straggler policy is started exactly once, at the
\* first get_tasks call of the round that returns a non-empty task list (the
\* policy counts as started if and only if a task list was dispatched in the
\* current round); a poll that returns no tasks, or that comes after the
\* first dispatch, leaves the timer and the round's start time alone; the
\* first dispatch of a round starts the policy, which arms the timer for the
\* cutoff time unless the cutoff is infinite.
C27_PolicyStartedAtFirstDispatch ==
  /\ ~time_to_quit(Cur) => (policy_started <=> first_col_start # None)
  /\ \A c \in SeqToSet(authorized_cols) :
       LET S == get_tasks(Cur, c) IN
       /\ (S.ret.tasks = <<>> \/ policy_started)
            => /\ S.policy_started = policy_started
               /\ S.timer = timer
               /\ S.round_start_time = round_start_time
               /\ S.now = now
       /\ (S.ret.tasks # <<>> /\ ~policy_started)
            => /\ S.policy_started
               /\ straggler_cutoff_time # NP_INF
                    => /\ S.timer # None
                       /\ S.timer - S.now = straggler_cutoff_time
                       /\ S.round_start_time = S.now

\* ------------------------------------------------------------------ C28
\* C28: whenever a round is aggregated (by the submission that completes it
\* or by the cutoff callback, the calls running one after the other or on
\* several threads), for every task t of the round the contributors
\* are exactly the collaborators of collaborators_done that are in
\* collaborators_for_task(t, r); each is weighted by the data_size it
\* submitted for t in round r over the sum of the contributors' data sizes;
\* and no collaborator marked straggler contributes, even one that has
\* already submitted results for some of its tasks.
C28_ContributorsAreDone ==
  LET AsStated(S) ==
        \A t \in get_all_tasks_for_round(S, S.round_number) :
          LET expected == {c \in CNs : InDone(S, c)}
                            \cap get_collaborators_for_task(S, t, S.round_number)
              data_size == [c \in expected |->
                              S.collaborator_task_weight[TaskResultKey(t, c, S.round_number)]]
          IN /\ MetricContributors(S, t) = expected
             /\ MetricContributors(S, t) \cap S.stragglers = {}
             /\ Ok(compute_validation_related_task_metrics(S, t)) =>
                  /\ DOMAIN collaborator_weight_dict(S, t) = expected
                  /\ \A c \in expected :
                       /\ collaborator_weight_dict(S, t)[c].num = data_size[c]
                       /\ collaborator_weight_dict(S, t)[c].den = SumCounts(data_size, expected)
  IN /\ (TimerDue /\ ~time_to_quit(Cur) /\ DoneLen(Cur) >= minimum_reporting)
          => AsStated(DetermineStragglers([Cur EXCEPT !.timer = None]))
     /\ \A c \in SeqToSet(authorized_cols), t \in TaskNames, p \in Payloads :
          LET S1 == AcceptResult(Cur, c, round_number, t, p)
              total == Cardinality(get_assigned_collaborators(S1))
          IN (Ok(S1) /\ S1.ret = "accepted") =>
               /\ S1.collaborator_task_weight[TaskResultKey(t, c, round_number)] = p.data_size
               /\ DoneLen(S1) = total => AsStated(S1)
               /\ (DoneLen(S1) # total /\ straggler_cutoff_check(S1, DoneLen(S1), total))
                    => AsStated(DetermineStragglers(S1))
     /\ \A th \in Workers :
          eor_threads[th].stage = "checked" =>
            LET S1 == AcceptStore(Cur, eor_threads[th].call[1], eor_threads[th].round,
                                  eor_threads[th].call[2], SentPayload)
                total == Cardinality(get_assigned_collaborators(S1))
            IN (Ok(S1) /\ S1.ret = "accepted" /\ ~time_to_quit(S1)) =>
                 /\ DoneLen(S1) = total => AsStated(S1)
                 /\ (DoneLen(S1) # total /\ straggler_cutoff_check(S1, DoneLen(S1), total))
                      => AsStated(DetermineStragglers(S1))
     /\ \A th \in EorThreads :
          (eor_threads[th].stage = "guard_passed" /\ ~time_to_quit(Cur)) => AsStated(Cur)

\* ------------------------------------------------------------------ C29
\* C29: a round in which no task list has been dispatched (first_col_start
\* is still None) is never closed: no step, be it a submission,
\* set_straggler_cutoff_time or a timer callback, advances round_number while
\* the coordinator is idle for the round.
C29_NoEndOfRoundWhileIdle ==
  [][ (~time_to_quit(Cur) /\ first_col_start = None)
        => round_number' = round_number ]_vars

\* ------------------------------------------------------------------ C30
\* C30: while straggler_cutoff_time is +infinity, start_policy arms no timer
\* (it changes nothing and no timer is pending), straggler_cutoff_check is
\* false for every pair (done, total), and a submission that ends the round
\* (round_number advances) finds every assigned collaborator in
\* collaborators_done.
C30_InfiniteCutoff ==
  straggler_cutoff_time = NP_INF =>
    /\ timer = None
    /\ start_policy(Cur) = Cur
    /\ \A done \in 0 .. Cardinality(CNs), total \in 0 .. Cardinality(CNs) :
         ~straggler_cutoff_check(Cur, done, total)
    /\ \A c \in SeqToSet(authorized_cols), t \in SubmittedTasks, p \in Payloads :
         LET S1 == AcceptResult(Cur, c, round_number, t, p)
             S2 == send_local_task_results(Cur, c, round_number, t, p, Ch0)
         IN (S2.round_number # round_number) =>
              \A x \in get_assigned_collaborators(S1) : InDone(S1, x)


\* ------------------------------------------------------------------ C33
\* C33: in every reachable state collaborators_done holds each collaborator
\* at most once and only collaborators the assigner returns as assigned, so
\* that the lengths compared at line 737 are equal only when the two sets are.
C33_DoneIsSetOfAssigned ==
  /\ \A c \in CNs : collaborators_done[c] <= 1
  /\ \A c \in CNs : InDone(Cur, c) => c \in get_assigned_collaborators(Cur)
  /\ DoneLen(Cur) = Cardinality(get_assigned_collaborators(Cur))
       => {c \in CNs : InDone(Cur, c)} = get_assigned_collaborators(Cur)


\* ------------------------------------------------------------------ C34
\* C34: the end of round is all-or-nothing: a step in which
\* _end_of_round_check passes its guard (by completion or by the cutoff) also
\* advances round_number, also when a task of the round has no collaborator in
\* collaborators_done, and no handler returns leaving stragglers non-empty.
C34_EndOfRoundAllOrNothing ==
  [][ /\ (\E r \in Rounds : eor_runs'[r] > eor_runs[r]) => round_number' = round_number + 1
      /\ stragglers' = {} ]_vars


\* ------------------------------------------------------------------ C35
\* C35: after any sequence of admin add and remove calls and ends of round,
\* authorized_cols holds no cn twice, and a cn of which an end of round
\* removed an entry is no longer in authorized_cols, also when the cn was
\* queued under two labels.
C35_AuthorizedColsIsSet ==
  [][ /\ \A c \in CNs : CountInSeq(c, authorized_cols') <= 1
      /\ \A c \in CNs : CountInSeq(c, authorized_cols') < CountInSeq(c, authorized_cols)
                          => ~InSeq(c, authorized_cols') ]_vars


\* ------------------------------------------------------------------ C40
\* C40: in every reachable state collaborators_to_add and
\* collaborators_to_remove share no cn, every cn queued in collaborators_to_add
\* is absent from authorized_cols, and every cn queued in
\* collaborators_to_remove is present in authorized_cols.
C40_QueuesConsistent ==
  LET to_add == {collaborators_to_add[i][2] : i \in DOMAIN collaborators_to_add}
      to_remove == {collaborators_to_remove[i][2] : i \in DOMAIN collaborators_to_remove}
  IN /\ to_add \cap to_remove = {}
     /\ \A cn \in to_add : ~InSeq(cn, authorized_cols)
     /\ \A cn \in to_remove : InSeq(cn, authorized_cols)


\* ------------------------------------------------------------------ C36
\* C36: a send_local_task_results call that raises for a duplicate result, for
\* a delta tensor whose base model is missing, or because first_col_start is
\* unset (nothing was dispatched in the round) leaves collaborator_task_weight,
\* collaborator_tasks_results and collaborators_done as they were.
C36_ErrorLeavesResults ==
  \A c \in SeqToSet(authorized_cols), t \in TaskNames,
     p \in Payloads \cup {[data_size |-> 10, tensors |-> "bad_delta"]} :
    LET S1 == AcceptResult(Cur, c, round_number, t, p) IN
    S1.exc \in {DuplicateResult, "BaseModelMissing", "TypeError"} =>
      /\ S1.collaborator_task_weight = collaborator_task_weight
      /\ S1.collaborator_tasks_results = collaborator_tasks_results
      /\ S1.collaborators_done = collaborators_done


\* ------------------------------------------------------------------ C37
\* C37: once round_number >= rounds_to_train no step runs the end of round
\* again: round_number stays equal to rounds_to_train, no thread passes the
\* guard of _end_of_round_check, and no submission, timer callback or
\* set_straggler_cutoff_time call, and no thread that is inside
\* _end_of_round_check, indexes _end_of_round_check_done at rounds_to_train or
\* beyond.
C37_NoEndOfRoundAfterLast ==
  [][ time_to_quit(Cur) =>
        /\ round_number = rounds_to_train
        /\ round_number' = round_number
        /\ eor_runs' = eor_runs
        /\ \A c \in SeqToSet(authorized_cols), r \in 0 .. RoundsToTrain, t \in TaskNames :
             send_local_task_results(Cur, c, r, t, SentPayload, Ch0).exc # "IndexError"
        /\ straggler_cutoff_time_elapsed(Cur, Ch0).exc # "IndexError"
        /\ \A new \in CutoffInputs :
             set_straggler_cutoff_time(Cur, new, Ch0).exc # "IndexError"
        /\ \A th \in Threads :
             eor_threads[th].stage = "metrics_done"
               => EndOfRoundAdvance(Cur, Ch0).exc # "IndexError" ]_vars


\* ------------------------------------------------------------------ C38
\* C38: set_straggler_cutoff_time can be called in every coordinator state
\* (before the first dispatch, between rounds, with the policy constructed
\* disabled, after the last round) without raising, and it never makes the end
\* of round run while fewer than minimum_reporting collaborators are done.
C38_SetCutoffAnyState ==
  \A new \in CutoffInputs :
    LET S1 == set_straggler_cutoff_time(Cur, new, Ch0) IN
    /\ S1.exc \notin {"TypeError", "AttributeError"}
    /\ S1.eor_runs # eor_runs => DoneLen(Cur) >= minimum_reporting


C31_LosslessIffRequested ==
  \A r \in 0 .. RoundsToTrain, tags \in RequestTags, require_lossless \in BOOLEAN :
    LET S == get_aggregated_tensor(Cur, r, tags, require_lossless) IN
    Ok(S) =>
      /\ InSeq("compressed", S.named_tensor.tags)
           <=> (require_lossless \/ InSeq("compressed", tags))
      /\ S.named_tensor.lossless <=> InSeq("compressed", S.named_tensor.tags)


\* C32: best_model_score never decreases, and the best-model checkpoint is
\* written exactly in the steps in which the round's reported validate_agg
\* aggregate is strictly greater than best_model_score or best_model_score is
\* still unset (the steps that change best_model_score); an equal score does
\* not overwrite the checkpoint.
C32_BestModelCheckpoint ==
  [][ /\ best_model_score # NoScore =>
           /\ best_model_score' # NoScore
           /\ best_model_score[1] * best_model_score'[2]
                <= best_model_score'[1] * best_model_score[2]
      /\ best_saves' # best_saves <=> best_model_score' # best_model_score ]_vars

=============================================================================
